---- MODULE Spec2Model ----
(***************************************************************************)
(* A model of the agent-framework samples repository:                      *)
(*   - presentations/generate_architecture_doc.py : the markdown-to-docx   *)
(*     converter (SpecDoc; SpecHeadings on files of heading lines,         *)
(*     SpecInline on files of paragraphs with backticks);                  *)
(*   - presentations/generate_presentation.py : the slide deck (SpecDeck); *)
(*   - azure_ai_real_weather/weather_utils.py : the two weather functions  *)
(*     (SpecWeather);                                                      *)
(*   - the agent samples of azure_ai and azure_ai_real_weather             *)
(*     (SpecSamples).                                                      *)
(* Text is modelled as a sequence of one-character strings, so that the    *)
(* regular expressions and the strip/split calls of the converter are      *)
(* computed, character by character, the way the code computes them.       *)
(***************************************************************************)
EXTENDS Integers, Sequences, FiniteSets, TLC

VARIABLES
    \* ---- generate_architecture_doc.py : convert_md_to_docx ----
    pc,             \* "start", "loop", "done", "exit" (SystemExit), "failed" (uncaught exception)
    md_exists,      \* MD_FILE.exists()
    src,            \* the file lines read so far, as stored in the file
    in_code,        \* line 91
    code_lang,      \* line 92
    code_buffer,    \* line 93
    table_buffer,   \* line 94
    doc,            \* the block elements of the python-docx Document, in order
    docx_file,      \* the content of DOCX_FILE on disk
    exit_msg,       \* the argument of SystemExit, when raised
    docx_before,    \* history: the content of DOCX_FILE when the run began
    origin,         \* history: for each block of doc, the number of the source line it starts at
    code_from,      \* history: the number of the opening fence of the pending code block
    table_from,     \* history: the number of the first captured row of the pending table
    \* ---- weather_utils.py : get_real_weather, get_real_weather_detailed ----
    w_pc,           \* position in the function
    w_fn,           \* which function is called: "basic" or "detailed"
    api_key,        \* os.getenv("OPENWEATHERMAP_API_KEY")
    location,       \* the argument
    sessions,       \* number of aiohttp.ClientSession objects created
    open_sessions,  \* number of sessions entered and not yet closed
    gets,           \* number of GET requests issued
    status,         \* response.status
    data,           \* the parsed body
    exc,            \* the exception in flight inside the try block
    w_result,       \* the returned string
    w_escaped,      \* an exception left the function
    \* ---- the agent samples ----
    script,         \* the sample that runs
    s_pc,           \* position in the sample
    example,        \* the number of the example main has reached
    run_no,         \* the number of run and run_stream calls the example has made
    cred_open,      \* AzureCliCredential scopes entered and not left
    client_open,    \* AIProjectClient scopes entered and not left
    agent_open,     \* ChatAgent scopes entered and not left
    created,        \* existing_agent: create_agent has returned
    remote_agent,   \* existing_agent: the remote agent resource: "none", "exists", "deleted"
    delete_calls,   \* existing_agent: number of delete_agent calls issued
    pending,        \* the exception that is propagating, "" when none
    calls,          \* the invocations passed downstream by ChatAgent.run, in order
    trace,          \* history: the scope entries and exits, remote calls and prints, in order
    in_flight,      \* the number of run or run_stream calls in flight on the agent
    context,        \* the conversation context of the agent whose scope is open
    replies,        \* history: the replies received, in order, one for each completed run
    chunks,         \* the texts of the chunks the current run_stream has delivered, in order
    handled,        \* the number of delivered chunks the loop body has handled
    printed,        \* the fragments the loop body has printed for the current run_stream
    \* ---- generate_presentation.py : main ----
    d_pc,           \* position in main: "start", "main", "items", "saved", "failed"
    call_no,        \* the number of slide constructor calls main has made
    item_no,        \* inside a constructor: the number of bullet items added so far
    slides,         \* prs.slides: the slides of the deck, in order
    pptx_file       \* the content of agent_framework_overview.pptx on disk

docVars == <<pc, md_exists, src, in_code, code_lang, code_buffer, table_buffer,
             doc, docx_file, exit_msg, docx_before, origin, code_from, table_from>>
weatherVars == <<w_pc, w_fn, api_key, location, sessions, open_sessions, gets,
                 status, data, exc, w_result, w_escaped>>
runVars == <<in_flight, context, replies, chunks, handled, printed>>
sampleVars == <<script, s_pc, example, run_no, cred_open, client_open, agent_open,
                created, remote_agent, delete_calls, pending, calls, trace, runVars>>
deckVars == <<d_pc, call_no, item_no, slides, pptx_file>>
vars == <<docVars, weatherVars, sampleVars, deckVars>>

\* what each program leaves alone: the variables of the other programs
notDoc == <<weatherVars, sampleVars, deckVars>>
notWeather == <<docVars, sampleVars, deckVars>>
notSamples == <<docVars, weatherVars, deckVars>>
notDeck == <<docVars, weatherVars, sampleVars>>

(***************************************************************************)
(* Bounds                                                                  *)
(***************************************************************************)
\* The longest markdown file read (in lines).
MaxLines == 4

\* The most chunks one run_stream call delivers.
MaxChunks == 3

(***************************************************************************)
(* Python values                                                           *)
(***************************************************************************)
None == "None"

\* The backtick character, U+0060 (a string of the module cannot hold it literally).
BACKTICK == "U+0060"

\* str.isspace() for the characters of the model's alphabet
Whitespace == {" ", "\t", "\n"}

RECURSIVE rstrip(_)
\* str.rstrip(): trailing whitespace removed
rstrip(s) ==
    IF s # <<>> /\ s[Len(s)] \in Whitespace
        THEN rstrip(SubSeq(s, 1, Len(s) - 1))
        ELSE s

RECURSIVE lstrip(_)
\* str.lstrip(): leading whitespace removed
lstrip(s) ==
    IF s # <<>> /\ s[1] \in Whitespace THEN lstrip(Tail(s)) ELSE s

\* str.strip()
strip(s) == lstrip(rstrip(s))

RECURSIVE rstrip_nl(_)
\* str.rstrip("\n"): trailing line feeds removed
rstrip_nl(s) ==
    IF s # <<>> /\ s[Len(s)] = "\n"
        THEN rstrip_nl(SubSeq(s, 1, Len(s) - 1))
        ELSE s

RECURSIVE split(_, _)
\* str.split(sep) for a one-character separator: the segments between separators
split(s, sep) ==
    IF \E i \in 1..Len(s) : s[i] = sep
        THEN LET i == CHOOSE k \in 1..Len(s) :
                          s[k] = sep /\ \A j \in 1..(k - 1) : s[j] # sep
             IN  <<SubSeq(s, 1, i - 1)>> \o split(SubSeq(s, i + 1, Len(s)), sep)
        ELSE <<s>>

RECURSIVE join(_, _)
\* sep.join(lines)
join(sep, lines) ==
    IF lines = <<>> THEN <<>>
    ELSE IF Len(lines) = 1 THEN lines[1]
    ELSE lines[1] \o sep \o join(sep, Tail(lines))

(***************************************************************************)
(* The regular expressions of generate_architecture_doc.py                 *)
(***************************************************************************)
\* CODE_FENCE (line 27): three backticks at the start of the line, then anything
CODE_FENCE(line) ==
    Len(line) >= 3 /\ \A i \in 1..3 : line[i] = BACKTICK

\* group(1) of a CODE_FENCE match
CODE_FENCE_group1(line) == SubSeq(line, 4, Len(line))

RECURSIVE LeadingHashes(_)
\* the number of "#" characters the line starts with
LeadingHashes(line) ==
    IF line # <<>> /\ line[1] = "#" THEN 1 + LeadingHashes(Tail(line)) ELSE 0

\* HEADING (line 28): one to six "#", then whitespace, then anything
HEADING(line) ==
    LET k == LeadingHashes(line)
    IN  k >= 1 /\ k <= 6 /\ Len(line) > k /\ line[k + 1] \in Whitespace

\* group(1) of a HEADING match: the markers
HEADING_group1(line) == SubSeq(line, 1, LeadingHashes(line))

\* group(2) of a HEADING match: what follows the markers and the whitespace after them
HEADING_group2(line) == lstrip(SubSeq(line, LeadingHashes(line) + 1, Len(line)))

\* TABLE_ROW (line 29): a "|" first, a "|" last, anything between
TABLE_ROW(line) ==
    Len(line) >= 2 /\ line[1] = "|" /\ line[Len(line)] = "|"

\* the pattern of line 148: an optional ":", three or more "-", an optional ":"
AlignmentCell(p) ==
    LET a == IF p # <<>> /\ p[1] = ":" THEN Tail(p) ELSE p
        b == IF a # <<>> /\ a[Len(a)] = ":" THEN SubSeq(a, 1, Len(a) - 1) ELSE a
    IN  Len(b) >= 3 /\ \A i \in 1..Len(b) : b[i] = "-"

\* [p.strip() for p in line.split("|")][1:-1]
RowParts(line) ==
    LET segs == split(line, "|")
    IN  [i \in 1..(Len(segs) - 2) |-> strip(segs[i + 1])]

RECURSIVE InlineRuns(_, _, _)
\* The runs added to a paragraph (lines 156-167): INLINE_CODE (line 30: a backtick, one or more other characters, a backtick) is searched
\* from position pos on; last_end is the 0-based end of the previous match.
InlineRuns(line, pos, last_end) ==
    LET opens == {i \in pos..Len(line) :
                     /\ line[i] = BACKTICK
                     /\ \E j \in (i + 2)..Len(line) :
                            /\ line[j] = BACKTICK
                            /\ \A k \in (i + 1)..(j - 1) : line[k] # BACKTICK}
    IN  IF opens = {}
            THEN IF last_end < Len(line)
                     THEN <<[text |-> SubSeq(line, last_end + 1, Len(line)), mono |-> FALSE]>>
                     ELSE <<>>
            ELSE LET i == CHOOSE o \in opens : \A p \in opens : o <= p
                     j == CHOOSE c \in (i + 2)..Len(line) :
                              /\ line[c] = BACKTICK
                              /\ \A k \in (i + 1)..(c - 1) : line[k] # BACKTICK
                     before == IF i - 1 > last_end
                                   THEN <<[text |-> SubSeq(line, last_end + 1, i - 1),
                                           mono |-> FALSE]>>
                                   ELSE <<>>
                 IN  before
                       \o <<[text |-> SubSeq(line, i + 1, j - 1), mono |-> TRUE]>>
                       \o InlineRuns(line, j + 1, j)

(***************************************************************************)
(* generate_architecture_doc.py : the document and its block elements      *)
(***************************************************************************)
\* MD_FILE (line 24) and DOCX_FILE (line 25)
MD_FILE == "ROOT/architecture_components.md"
DOCX_FILE == "ROOT/architecture_components.docx"

\* The lines a markdown file is made of, each as stored (with its line feed).
FileLines ==
    { <<BACKTICK, BACKTICK, BACKTICK, "\n">>,           \* a fence
      <<BACKTICK, BACKTICK, BACKTICK, "a", "\n">>,      \* a fence with a language tag
      <<"#", " ", "a", "\n">>,                          \* a heading
      <<"|", "a", "|", "\n">>,                          \* a table row of one cell
      <<"|", " ", "a", "|", "b", "|", "\n">>,           \* a table row of two cells
      <<"|", "-", "-", "-", "|", "\n">>,                \* an alignment row
      <<"\n">>,                                         \* a blank line
      <<"a", "\n">>,                                    \* a paragraph
      <<"a", " ", "\n">>,                               \* a paragraph ending in a space
      <<BACKTICK, "a", BACKTICK, "b", "\n">> }          \* a paragraph with inline code

\* iter_lines yields each line of the file without its line feed
iter_lines(file_line) == rstrip_nl(file_line)

\* the line the loop body works on (line 110)
StrippedLine(file_line) == rstrip(iter_lines(file_line))

\* DOCX_FILE before the run: absent, or left by an earlier run
NoFile == [exists |-> FALSE, content |-> <<>>]
OldFile ==
    [exists |-> TRUE,
     content |-> <<[kind |-> "heading", text |-> <<"o", "l", "d">>, level |-> 1]>>]

\* add_heading without the cap: the level is passed on as it is
add_heading_uncapped(text, level) ==
    [kind |-> "heading", text |-> text, level |-> level]

\* add_heading: levels above 4 are rendered at level 4
add_heading(text, level) ==
    [kind |-> "heading", text |-> text, level |-> IF level <= 4 THEN level ELSE 4]

\* add_code_block: one CodeBlock paragraph holding the lines joined by line feeds
add_code_block(code_lines, language) ==
    [kind |-> "code", text |-> join(<<"\n">>, code_lines)]

\* add_table raises IndexError when a body row has more cells than the header row
add_table_raises(rows) ==
    \E r \in 2..Len(rows) : Len(rows[r]) > Len(rows[1])

\* add_table: the table as it stands when add_table returns or raises. Every row
\* has cols cells; a row that is too long raises once cols of its cells are set.
add_table(rows) ==
    LET cols == Len(rows[1])
        last == IF add_table_raises(rows)
                    THEN CHOOSE r \in 2..Len(rows) :
                             /\ Len(rows[r]) > cols
                             /\ \A q \in 2..(r - 1) : Len(rows[q]) <= cols
                    ELSE Len(rows)
    IN  [kind |-> "table",
         cols |-> cols,
         rows |-> [r \in 1..last |->
                      [c \in 1..cols |->
                          IF c <= Len(rows[r]) THEN strip(rows[r][c]) ELSE <<>>]]]

\* doc.add_paragraph("") (line 131): a paragraph without runs
EmptyParagraph == [kind |-> "paragraph", runs |-> <<>>]

\* lines 155-167: a paragraph of plain and Courier New runs
Paragraph(line) == [kind |-> "paragraph", runs |-> InlineRuns(line, 1, 0)]

\* flush_code without the test of line 98: a code block is added also when the
\* buffer is empty
flush_code_always ==
    [doc |-> Append(doc, add_code_block(code_buffer, code_lang)),
     origin |-> Append(origin, code_from),
     code_buffer |-> <<>>,
     code_lang |-> <<>>]

\* flush_code doing nothing: the pending lines stay in the buffer
flush_code_skipped ==
    [doc |-> doc, origin |-> origin, code_buffer |-> code_buffer, code_lang |-> code_lang]

\* flush_code (lines 96-101): what it leaves in doc, code_buffer and code_lang
flush_code ==
    IF code_buffer # <<>>
        THEN [doc |-> Append(doc, add_code_block(code_buffer, code_lang)),
              origin |-> Append(origin, code_from),
              code_buffer |-> <<>>,
              code_lang |-> <<>>]
        ELSE [doc |-> doc, origin |-> origin,
              code_buffer |-> code_buffer, code_lang |-> code_lang]

\* flush_table (lines 103-107) applied to document d: what it leaves in the
\* document and table_buffer, and whether add_table raised
flush_table(d, o) ==
    IF table_buffer # <<>>
        THEN [doc |-> Append(d, add_table(table_buffer)),
              origin |-> Append(o, table_from),
              table_buffer |-> IF add_table_raises(table_buffer)
                                   THEN table_buffer ELSE <<>>,
              raised |-> add_table_raises(table_buffer)]
        ELSE [doc |-> d, origin |-> o, table_buffer |-> table_buffer, raised |-> FALSE]

\* SourceMissing with the existence of DOCX_FILE tested in place of MD_FILE
SourceMissingWrongPath == ~docx_file.exists

\* line 84: the source file is missing
SourceMissing == ~md_exists

\* the exit status of the interpreter: SystemExit with a message, or an
\* uncaught exception, ends the process with status 1
ExitStatus == IF pc \in {"exit", "failed"} THEN 1 ELSE 0

DocInit ==
    /\ pc = "start"
    /\ md_exists \in BOOLEAN
    /\ src = <<>>
    /\ in_code = FALSE
    /\ code_lang = <<>>
    /\ code_buffer = <<>>
    /\ table_buffer = <<>>
    /\ doc = <<>>
    /\ docx_file \in {NoFile, OldFile}
    /\ docx_before = docx_file
    /\ exit_msg = <<>>
    /\ origin = <<>>
    /\ code_from = 0
    /\ table_from = 0

\* lines 82-94: the existence check, then the empty document and the parser state
Start ==
    /\ pc = "start"
    /\ IF SourceMissing
           THEN /\ pc' = "exit"
                /\ exit_msg' = <<"Markdown file not found: ", MD_FILE>>
           ELSE /\ pc' = "loop"
                /\ exit_msg' = exit_msg
    /\ UNCHANGED <<docx_before, md_exists, src, in_code, code_lang, code_buffer, table_buffer,
                   doc, docx_file, origin, code_from, table_from>>
    /\ UNCHANGED notDoc

\* lines 112-122: a fence line opens or closes a code block
FenceLineOf(Lines) ==
    \E fl \in Lines :
        LET line == StrippedLine(fl) IN
        /\ pc = "loop"
        /\ Len(src) < MaxLines
        /\ CODE_FENCE(line)
        /\ src' = Append(src, fl)
        /\ IF in_code
               THEN /\ doc' = flush_code.doc
                    /\ origin' = flush_code.origin
                    /\ code_buffer' = flush_code.code_buffer
                    /\ code_lang' = flush_code.code_lang
                    /\ in_code' = FALSE
                    /\ code_from' = 0
               ELSE /\ in_code' = TRUE
                    /\ code_lang' = strip(CODE_FENCE_group1(line))
                    /\ code_from' = Len(src) + 1
                    /\ UNCHANGED <<doc, origin, code_buffer>>
        /\ UNCHANGED <<pc, docx_before, md_exists, table_buffer, docx_file, exit_msg, table_from>>
        /\ UNCHANGED notDoc

\* lines 112-122 over the lines of FileLines
FenceLine == FenceLineOf(FileLines)

\* lines 124-126: inside a code block the line goes to the code buffer
CodeLineOf(Lines) ==
    \E fl \in Lines :
        LET line == StrippedLine(fl) IN
        /\ pc = "loop"
        /\ Len(src) < MaxLines
        /\ ~CODE_FENCE(line)
        /\ in_code
        /\ src' = Append(src, fl)
        /\ code_buffer' = Append(code_buffer, line)
        /\ UNCHANGED <<pc, docx_before, md_exists, in_code, code_lang, table_buffer, doc,
                       docx_file, exit_msg, origin, code_from, table_from>>
        /\ UNCHANGED notDoc

\* lines 124-126 over the lines of FileLines
CodeLine == CodeLineOf(FileLines)

\* The end of a branch that flushes the table and then adds block b (lines 130-131,
\* 137-140, 154-167): add_table may raise, and the exception leaves the function.
FlushTableThenAdd(b) ==
    LET f == flush_table(doc, origin) IN
    /\ table_buffer' = f.table_buffer
    /\ table_from' = IF f.raised THEN table_from ELSE 0
    /\ IF f.raised
           THEN /\ pc' = "failed"
                /\ doc' = f.doc
                /\ origin' = f.origin
           ELSE /\ pc' = pc
                /\ doc' = Append(f.doc, b)
                /\ origin' = Append(f.origin, Len(src) + 1)

\* lines 128-132: a blank line flushes the table and adds an empty paragraph
BlankLineOf(Lines) ==
    \E fl \in Lines :
        LET line == StrippedLine(fl) IN
        /\ pc = "loop"
        /\ Len(src) < MaxLines
        /\ ~CODE_FENCE(line)
        /\ ~in_code
        /\ strip(line) = <<>>
        /\ src' = Append(src, fl)
        /\ FlushTableThenAdd(EmptyParagraph)
        /\ UNCHANGED <<docx_before, md_exists, in_code, code_lang, code_buffer, docx_file,
                       exit_msg, code_from>>
        /\ UNCHANGED notDoc

\* lines 128-132 over the lines of FileLines
BlankLine == BlankLineOf(FileLines)

\* lines 134-141: a heading flushes the table and adds a heading
HeadingLineOf(Lines) ==
    \E fl \in Lines :
        LET line == StrippedLine(fl) IN
        /\ pc = "loop"
        /\ Len(src) < MaxLines
        /\ ~CODE_FENCE(line)
        /\ ~in_code
        /\ strip(line) # <<>>
        /\ HEADING(line)
        /\ src' = Append(src, fl)
        /\ FlushTableThenAdd(add_heading(strip(HEADING_group2(line)),
                                         Len(HEADING_group1(line))))
        /\ UNCHANGED <<docx_before, md_exists, in_code, code_lang, code_buffer, docx_file,
                       exit_msg, code_from>>
        /\ UNCHANGED notDoc

\* lines 134-141 over the lines of FileLines
HeadingLine == HeadingLineOf(FileLines)

\* lines 143-151: a table row is captured, unless it is an alignment row
TableRowLineOf(Lines) ==
    \E fl \in Lines :
        LET line == StrippedLine(fl)
            parts == RowParts(line)
        IN
        /\ pc = "loop"
        /\ Len(src) < MaxLines
        /\ ~CODE_FENCE(line)
        /\ ~in_code
        /\ strip(line) # <<>>
        /\ ~HEADING(line)
        /\ TABLE_ROW(line)
        /\ src' = Append(src, fl)
        /\ IF \A i \in 1..Len(parts) : AlignmentCell(parts[i])
               THEN UNCHANGED <<table_buffer, table_from>>
               ELSE /\ table_buffer' = Append(table_buffer, parts)
                    /\ table_from' = IF table_buffer = <<>> THEN Len(src) + 1
                                                           ELSE table_from
        /\ UNCHANGED <<pc, docx_before, md_exists, in_code, code_lang, code_buffer, doc,
                       docx_file, exit_msg, origin, code_from>>
        /\ UNCHANGED notDoc

\* lines 143-151 over the lines of FileLines
TableRowLine == TableRowLineOf(FileLines)

\* lines 153-167: any other line flushes the table and adds a paragraph
ParagraphLineOf(Lines) ==
    \E fl \in Lines :
        LET line == StrippedLine(fl) IN
        /\ pc = "loop"
        /\ Len(src) < MaxLines
        /\ ~CODE_FENCE(line)
        /\ ~in_code
        /\ strip(line) # <<>>
        /\ ~HEADING(line)
        /\ ~TABLE_ROW(line)
        /\ src' = Append(src, fl)
        /\ FlushTableThenAdd(Paragraph(line))
        /\ UNCHANGED <<docx_before, md_exists, in_code, code_lang, code_buffer, docx_file,
                       exit_msg, code_from>>
        /\ UNCHANGED notDoc

\* lines 153-167 over the lines of FileLines
ParagraphLine == ParagraphLineOf(FileLines)

\* SavedAfterFlush with doc.save placed in a finally clause: the document is
\* written also when a flush raised
SavedInFinally(raised, d) == [exists |-> TRUE, content |-> d]

\* line 173: doc.save is the statement after the two flushes, so it is skipped when
\* one of them raised; else DOCX_FILE holds document d
SavedAfterFlush(raised, d) ==
    IF raised THEN docx_file ELSE [exists |-> TRUE, content |-> d]

\* lines 169-173: at the end of the file both buffers are flushed and the document saved
EndOfInput ==
    LET c == flush_code
        t == flush_table(c.doc, c.origin)
    IN
    /\ pc = "loop"
    /\ code_buffer' = c.code_buffer
    /\ code_lang' = c.code_lang
    /\ code_from' = IF code_buffer # <<>> THEN 0 ELSE code_from
    /\ table_buffer' = t.table_buffer
    /\ table_from' = IF t.raised THEN table_from ELSE 0
    /\ doc' = t.doc
    /\ origin' = t.origin
    /\ pc' = IF t.raised THEN "failed" ELSE "done"
    /\ docx_file' = SavedAfterFlush(t.raised, t.doc)
    /\ UNCHANGED <<docx_before, md_exists, src, in_code, exit_msg>>
    /\ UNCHANGED notDoc

DocNext ==
    \/ Start
    \/ FenceLine
    \/ CodeLine
    \/ BlankLine
    \/ HeadingLine
    \/ TableRowLine
    \/ ParagraphLine
    \/ EndOfInput

\* A line of k "#" markers, the separator sep, the text "a" and the line feed
HashLine(k, sep) == [i \in 1..k |-> "#"] \o sep \o <<"a", "\n">>

\* The lines of a markdown file of headings: one to seven markers followed by a
\* space and text, markers followed by no whitespace at all, markers followed by
\* a tab and a space with whitespace after the text, and a fence (a heading-shaped
\* line inside a code block is code).
HeadingFileLines ==
    {HashLine(k, <<" ">>) : k \in 1..7}
        \cup { HashLine(1, <<>>),
               <<"#", "#", "\t", " ", "a", " ", "\n">>,
               <<BACKTICK, BACKTICK, BACKTICK, "\n">> }

\* convert_md_to_docx reading a file made of the lines of HeadingFileLines
HeadingsNext ==
    \/ Start
    \/ FenceLineOf(HeadingFileLines)
    \/ CodeLineOf(HeadingFileLines)
    \/ HeadingLineOf(HeadingFileLines)
    \/ ParagraphLineOf(HeadingFileLines)
    \/ EndOfInput

\* The lines of a markdown file of paragraphs with backticks in them: a span
\* followed by text, a span between text with a space after it, a backtick
\* before a span, two spans side by side, a backtick alone, two backticks with
\* nothing between them, a span followed by a backtick alone, a span of one space.
InlineFileLines ==
    { <<BACKTICK, "a", BACKTICK, "b", "\n">>,
      <<"a", " ", BACKTICK, "b", BACKTICK, " ", "\n">>,
      <<BACKTICK, BACKTICK, "a", BACKTICK, "\n">>,
      <<BACKTICK, "a", BACKTICK, BACKTICK, "b", BACKTICK, "\n">>,
      <<"a", BACKTICK, "b", "\n">>,
      <<BACKTICK, BACKTICK, "\n">>,
      <<BACKTICK, "a", BACKTICK, "b", BACKTICK, "c", "\n">>,
      <<"a", BACKTICK, " ", BACKTICK, "\n">> }

\* convert_md_to_docx reading a file made of the lines of InlineFileLines
InlineNext ==
    \/ Start
    \/ ParagraphLineOf(InlineFileLines)
    \/ EndOfInput

(***************************************************************************)
(* weather_utils.py : get_real_weather and get_real_weather_detailed       *)
(***************************************************************************)
Locations == {"Tokyo", "London,UK"}

\* os.getenv: None when the variable is unset, else its value (which may be empty)
ApiKeys == {None, "", "0123456789abcdef"}

\* the status codes the upstream service answers with
Statuses == {200, 204, 401, 404, 500}

\* a complete body of a 200 answer, flattened: weather[0].description, main.*,
\* wind.*, clouds.all, visibility
FullBody ==
    [description |-> "clear sky", temp |-> 15, feels_like |-> 14, temp_min |-> 12,
     temp_max |-> 17, pressure |-> 1013, humidity |-> 65, wind_speed |-> 3,
     wind_deg |-> 270, clouds_all |-> 0, visibility |-> 10000]

OtherBody ==
    [description |-> "Light Rain", temp |-> -2, feels_like |-> -7, temp_min |-> -4,
     temp_max |-> 1, pressure |-> 998, humidity |-> 93, wind_speed |-> 11,
     wind_deg |-> 0, clouds_all |-> 100, visibility |-> 800]

\* the body b without the keys of S
Without(b, S) == [k \in (DOMAIN b) \ S |-> b[k]]

\* the bodies response.json() returns
Bodies ==
    {FullBody, OtherBody, Without(OtherBody, {"wind_deg", "visibility"})}
        \cup {Without(FullBody, S) :
                 S \in {{"wind_deg", "visibility"}, {"wind_deg"}, {"visibility"},
                        {"description"}, {"humidity"}, {"wind_speed"}, {"temp_max"},
                        {"pressure"}, {"clouds_all"}, DOMAIN FullBody}}

\* the exceptions the calls inside the try block raise
NoException == [cls |-> "none", text |-> ""]
GetExceptions ==
    {[cls |-> "ClientConnectorError", text |-> "Cannot connect to host"],
     [cls |-> "TimeoutError", text |-> ""]}
JsonExceptions ==
    {[cls |-> "ContentTypeError", text |-> "unexpected mimetype"],
     [cls |-> "JSONDecodeError", text |-> "Expecting value"]}

\* except aiohttp.ClientError (lines 79, 154)
IsClientError(e) == e.cls \in {"ClientConnectorError", "ContentTypeError"}

\* except Exception (lines 81, 156)
IsException(e) == e.cls \in {"TimeoutError", "JSONDecodeError", "KeyError", "AttributeError"}

\* str.capitalize(): the first character upper case, the others lower case
capitalize(s) ==
    CASE s = "clear sky" -> "Clear sky"
      [] s = "Light Rain" -> "Light rain"

Digit(d) ==
    CASE d = 0 -> "0" [] d = 1 -> "1" [] d = 2 -> "2" [] d = 3 -> "3" [] d = 4 -> "4"
      [] d = 5 -> "5" [] d = 6 -> "6" [] d = 7 -> "7" [] d = 8 -> "8" [] d = 9 -> "9"

RECURSIVE str(_)
\* str(n), as an f-string formats an integer: the decimal digits, "-" first when negative
str(n) ==
    IF n < 0 THEN "-" \o str(0 - n)
    ELSE IF n < 10 THEN Digit(n)
    ELSE str(n \div 10) \o Digit(n % 10)

\* One line of a returned text: the literal text of the f-string, with {} where a
\* value is formatted in, and the values formatted in. A character outside ASCII
\* is written [U+nnnn].
Line(fmt, args) == [fmt |-> fmt, args |-> args]

\* lines 46-49 and 101-104
NotSetMessage ==
    << Line("Error: OPENWEATHERMAP_API_KEY not set in environment variables.", <<>>),
       Line("Please sign up at https://openweathermap.org/api and add your API key to .env file.", <<>>) >>

\* lines 74 and 149
InvalidKeyMessage ==
    << Line("Error: Invalid API key. Please check your OPENWEATHERMAP_API_KEY.", <<>>) >>

\* lines 76 and 151
NotFoundMessage(loc) ==
    << Line("Error: City '{}' not found. Try using format like 'Seattle' or 'London,UK'.",
            <<loc>>) >>

\* lines 78 and 153
StatusMessage(loc, s) ==
    << Line("Error: Could not fetch weather for {} (Status: {})", <<loc, str(s)>>) >>

\* lines 80 and 155
NetworkErrorMessage(e) == << Line("Error: Network error occurred: {}", <<e.text>>) >>

\* lines 82 and 157
UnexpectedErrorMessage(e) == << Line("Error: Unexpected error occurred: {}", <<e.text>>) >>

\* the keys lines 60-64 read with data[...]
BasicKeys == {"description", "temp", "feels_like", "humidity", "wind_speed"}

\* the keys lines 117-126 read with data[...]; wind.deg and visibility are read with .get
DetailedKeys ==
    {"description", "temp", "feels_like", "temp_min", "temp_max", "pressure",
     "humidity", "wind_speed", "clouds_all"}

\* lines 66-72
BasicReport(loc, d) ==
    << Line("Weather in {}:", <<loc>>),
       Line("- Conditions: {}", <<d.description>>),
       Line("- Temperature: {}[U+00B0]C (feels like {}[U+00B0]C)", <<str(d.temp), str(d.feels_like)>>),
       Line("- Humidity: {}%", <<str(d.humidity)>>),
       Line("- Wind Speed: {} m/s", <<str(d.wind_speed)>>) >>

\* dict.get(key) without the default: an absent key formats as None
GetOrNone(d, key) == IF key \in DOMAIN d THEN str(d[key]) ELSE "None"

\* dict.get(key, "N/A") formatted into an f-string
GetOrNA(d, key) == IF key \in DOMAIN d THEN str(d[key]) ELSE "N/A"

\* lines 129-147
DetailedReport(loc, d) ==
    << Line("Detailed Weather Report for {}:", <<loc>>),
       Line("[U+2501 x 32]", <<>>),
       Line("Conditions: {}", <<capitalize(d.description)>>),
       Line("", <<>>),
       Line("Temperature:", <<>>),
       Line("  [U+2022] Current: {}[U+00B0]C (feels like {}[U+00B0]C)", <<str(d.temp), str(d.feels_like)>>),
       Line("  [U+2022] Min/Max: {}[U+00B0]C / {}[U+00B0]C", <<str(d.temp_min), str(d.temp_max)>>),
       Line("", <<>>),
       Line("Atmospheric Conditions:", <<>>),
       Line("  [U+2022] Pressure: {} hPa", <<str(d.pressure)>>),
       Line("  [U+2022] Humidity: {}%", <<str(d.humidity)>>),
       Line("  [U+2022] Cloudiness: {}%", <<str(d.clouds_all)>>),
       Line("  [U+2022] Visibility: {} meters", <<GetOrNA(d, "visibility")>>),
       Line("", <<>>),
       Line("Wind:", <<>>),
       Line("  [U+2022] Speed: {} m/s", <<str(d.wind_speed)>>),
       Line("  [U+2022] Direction: {}[U+00B0]", <<GetOrNA(d, "wind_deg")>>) >>

\* KeyMissing with the test written api_key == "": an unset variable passes it
KeyMissingEmptyOnly(k) == k = ""

\* lines 45 and 100: not api_key
KeyMissing(k) == k = None \/ k = ""

\* StatusBranch with 403 tested where the code tests 401
StatusBranch403(s) ==
    CASE s = 200 -> "report"
      [] s = 403 -> "invalid_key"
      [] s = 404 -> "not_found"
      [] OTHER -> "other"

\* the branch lines 58-78 (113-153) take on response.status
StatusBranch(s) ==
    CASE s = 200 -> "report"
      [] s = 401 -> "invalid_key"
      [] s = 404 -> "not_found"
      [] OTHER -> "other"

\* Caught without the second clause, except Exception
CaughtClientErrorOnly(e) == IsClientError(e)

\* the except clauses of lines 79-82 (154-157): is the exception caught
Caught(e) == IsClientError(e) \/ IsException(e)

\* what the except clause that catches e returns
Handler(e) ==
    IF IsClientError(e) THEN NetworkErrorMessage(e) ELSE UnexpectedErrorMessage(e)

WeatherInit ==
    /\ w_pc = "call"
    /\ w_fn \in {"basic", "detailed"}
    /\ api_key \in ApiKeys
    /\ location \in Locations
    /\ sessions = 0
    /\ open_sessions = 0
    /\ gets = 0
    /\ status = 0
    /\ data = << >>
    /\ exc = NoException
    /\ w_result = <<>>
    /\ w_escaped = FALSE

\* lines 44-49 (99-104): without a key the function returns at once
CheckKey ==
    /\ w_pc = "call"
    /\ IF KeyMissing(api_key)
           THEN /\ w_result' = NotSetMessage
                /\ w_pc' = "returned"
           ELSE /\ w_result' = w_result
                /\ w_pc' = "session"
    /\ UNCHANGED <<w_fn, api_key, location, sessions, open_sessions, gets, status,
                   data, exc, w_escaped>>
    /\ UNCHANGED notWeather

\* line 54 (109): async with aiohttp.ClientSession() as session
OpenSession ==
    /\ w_pc = "session"
    /\ sessions' = sessions + 1
    /\ open_sessions' = open_sessions + 1
    /\ w_pc' = "get"
    /\ UNCHANGED <<w_fn, api_key, location, gets, status, data, exc, w_result, w_escaped>>
    /\ UNCHANGED notWeather

\* line 57 (112): session.get answers with a status, or raises
Get ==
    /\ w_pc = "get"
    /\ gets' = gets + 1
    /\ \/ \E s \in Statuses :
            /\ status' = s
            /\ exc' = exc
            /\ w_pc' = "status"
       \/ \E e \in GetExceptions :
            /\ status' = status
            /\ exc' = e
            /\ w_pc' = "closing"
    /\ UNCHANGED <<w_fn, api_key, location, sessions, open_sessions, data, w_result,
                   w_escaped>>
    /\ UNCHANGED notWeather

\* StatusText with the last branch of get_real_weather_detailed worded on its
\* own, without the "Error:" prefix
StatusTextDetailedReworded(fn, b, loc, s) ==
    CASE b = "invalid_key" -> InvalidKeyMessage
      [] b = "not_found" -> NotFoundMessage(loc)
      [] b = "other" ->
             IF fn = "detailed"
                 THEN << Line("Could not fetch detailed weather for {} (Status: {})",
                              <<loc, str(s)>>) >>
                 ELSE StatusMessage(loc, s)

\* the text function fn returns in branch b of a status other than 200: lines
\* 73-78 of get_real_weather, lines 148-153 of get_real_weather_detailed
StatusText(fn, b, loc, s) ==
    CASE b = "invalid_key" -> InvalidKeyMessage
      [] b = "not_found" -> NotFoundMessage(loc)
      [] b = "other" -> StatusMessage(loc, s)

\* lines 58, 73-78 (113, 148-153): every status but 200 returns its message
OnStatus ==
    /\ w_pc = "status"
    /\ LET b == StatusBranch(status) IN
       /\ w_pc' = IF b = "report" THEN "json" ELSE "closing"
       /\ w_result' = IF b = "report" THEN w_result
                                       ELSE StatusText(w_fn, b, location, status)
    /\ UNCHANGED <<w_fn, api_key, location, sessions, open_sessions, gets, status,
                   data, exc, w_escaped>>
    /\ UNCHANGED notWeather

\* line 59 (114): response.json() gives the body, or raises
ReadJson ==
    /\ w_pc = "json"
    /\ \/ \E b \in Bodies :
            /\ data' = b
            /\ exc' = exc
            /\ w_pc' = "extract"
       \/ \E e \in JsonExceptions :
            /\ data' = data
            /\ exc' = e
            /\ w_pc' = "closing"
    /\ UNCHANGED <<w_fn, api_key, location, sessions, open_sessions, gets, status,
                   w_result, w_escaped>>
    /\ UNCHANGED notWeather

\* lines 60-72 (117-147): the fields are read and the report returned; a key that
\* is not in the body raises KeyError
Extract ==
    /\ w_pc = "extract"
    /\ LET keys == IF w_fn = "basic" THEN BasicKeys ELSE DetailedKeys IN
       IF keys \subseteq DOMAIN data
           THEN /\ w_result' = IF w_fn = "basic" THEN BasicReport(location, data)
                                                 ELSE DetailedReport(location, data)
                /\ exc' = exc
           ELSE /\ w_result' = w_result
                /\ exc' = [cls |-> "KeyError",
                           text |-> CHOOSE k \in keys \ DOMAIN data : TRUE]
    /\ w_pc' = "closing"
    /\ UNCHANGED <<w_fn, api_key, location, sessions, open_sessions, gets, status,
                   data, w_escaped>>
    /\ UNCHANGED notWeather

\* ClosedOnExit with session.close() called by hand as the last statement of the
\* block, no async with: an exception leaves the block before the close
ClosedAtEndOfBlock(n, e) == IF e = NoException THEN n - 1 ELSE n

\* async with aiohttp.ClientSession() (lines 54, 109): of n open sessions, the
\* ones still open once the block is left, by return or by exception e
ClosedOnExit(n, e) == n - 1

\* leaving the two async with blocks, by return or by exception: the session is closed
CloseSession ==
    /\ w_pc = "closing"
    /\ open_sessions' = ClosedOnExit(open_sessions, exc)
    /\ w_pc' = IF exc = NoException THEN "returned" ELSE "except"
    /\ UNCHANGED <<w_fn, api_key, location, sessions, gets, status, data, exc,
                   w_result, w_escaped>>
    /\ UNCHANGED notWeather

\* lines 79-82 (154-157): the except clauses
Except ==
    /\ w_pc = "except"
    /\ IF Caught(exc)
           THEN /\ w_result' = Handler(exc)
                /\ w_escaped' = FALSE
                /\ w_pc' = "returned"
           ELSE /\ w_result' = w_result
                /\ w_escaped' = TRUE
                /\ w_pc' = "raised"
    /\ UNCHANGED <<w_fn, api_key, location, sessions, open_sessions, gets, status,
                   data, exc>>
    /\ UNCHANGED notWeather

WeatherNext ==
    \/ CheckKey
    \/ OpenSession
    \/ Get
    \/ OnStatus
    \/ ReadJson
    \/ Extract
    \/ CloseSession
    \/ Except

(***************************************************************************)
(* The agent samples: azure_ai_with_existing_agent.py, and the scripts      *)
(* whose main awaits example functions (azure_ai_with_function_tools.py,   *)
(* azure_ai_basic.py, azure_ai_with_explicit_settings.py and the three     *)
(* scripts of azure_ai_real_weather)                                       *)
(***************************************************************************)
\* ChatAgent.run: the tools passed downstream are the tools bound at construction
\* followed by the tools of the call
ChatAgent_run_tools(agent_tools, run_tools) == agent_tools \o run_tools

\* azure_ai_with_existing_agent.py line 45: tools=get_real_weather
ExistingAgentTools == <<"get_real_weather">>

\* azure_ai_with_existing_agent.py line 47
ExistingAgentQuery == "What's the weather like in Tokyo?"

\* DeleteInFinally with the delete call placed after the async with block, no finally
DeleteAfterBlock == FALSE

\* azure_ai_with_existing_agent.py lines 39, 49-51: the delete call is in the
\* finally clause of the try statement, so it runs when the body has raised too
DeleteInFinally == TRUE

\* the scripts whose main awaits one or more example functions
ExampleScripts ==
    {"function_tools", "basic", "multiturn", "explicit_settings",
     "basic_real_weather", "detailed_real_weather"}

\* A new agent starts with an empty conversation context
ChatAgent_new_context == <<>>

\* Every run on an agent shares its conversation context: a completed turn adds
\* the prompt and the reply to it
ChatAgent_context_after(ctx, query, reply) ==
    ctx \o <<[role |-> "user", text |-> query], [role |-> "assistant", text |-> reply]>>

\* the replies a run returns
Replies == {"It is sunny.", "I could not get the weather."}

\* the texts of the chunks a stream delivers; a chunk without text has the text ""
ChunkTexts == {"", "Sun", "ny"}

\* CredentialScoped with the credential built by a plain assignment and closed at
\* the end of the function: a failure on the way skips the close
CredentialUnscoped == FALSE

\* the credential is an item of the async with statement (azure_ai_basic.py lines
\* 35-36, azure_ai_with_existing_agent.py lines 30-31, and the like): its scope is
\* left when a later item or the body raises
CredentialScoped == TRUE

\* RunAwaited with the await left out: the script goes on while the run is in flight
RunNotAwaited(ex, k) == FALSE

\* every run call is awaited (azure_ai_multiturn_real_weather.py lines 51, 57, 63,
\* 119; azure_ai_with_function_tools.py lines 50, 56, 62, ...): the script goes
\* on only when the run has returned
RunAwaited(ex, k) == TRUE

\* PrintsChunk without the test of the text
PrintsChunkAlways(text) == TRUE

\* azure_ai_basic.py line 69, azure_ai_multiturn_real_weather.py line 90: if chunk.text
PrintsChunk(text) == text # ""

\* the examples that call run_stream (azure_ai_basic.py line 68,
\* azure_ai_multiturn_real_weather.py line 89, azure_ai_basic_real_weather.py line
\* 66, azure_ai_detailed_real_weather.py line 72)
ExampleStreams(ex) ==
    ex \in {"streaming_example", "vacation_planner", "real_streaming_example",
            "comparison_example"}

\* azure_ai_with_function_tools.py lines 130-132: the examples main awaits, in order
Examples == <<"tools_on_agent_level", "tools_on_run_level", "mixed_tools_example">>

\* the tools each example gives to its agent (azure_ai_with_function_tools.py lines
\* 44, 75-79, 112; azure_ai_basic.py lines 40, 62; azure_ai_with_explicit_settings.py
\* line 42; azure_ai_multiturn_real_weather.py lines 45, 80, 108)
ExampleAgentTools(ex) ==
    CASE ex = "tools_on_agent_level" -> <<"get_real_weather", "get_time">>
      [] ex = "tools_on_run_level" -> <<>>
      [] ex = "mixed_tools_example" -> <<"get_real_weather">>
      [] ex \in {"non_streaming_example", "streaming_example", "explicit_settings_main",
                 "real_non_streaming_example", "real_streaming_example",
                 "comparison_example"} ->
             <<"get_real_weather">>
      [] ex \in {"multi_turn_conversation", "vacation_planner",
                 "detailed_weather_example"} ->
             <<"get_real_weather", "get_real_weather_detailed">>
      [] ex \in {"weather_alert_assistant", "travel_planning_example"} ->
             <<"get_real_weather_detailed">>

\* the queries each example runs, in order (azure_ai_with_function_tools.py lines
\* 48-60, 82-94, 116; azure_ai_basic.py lines 43, 65; azure_ai_with_explicit_settings.py
\* line 45; azure_ai_multiturn_real_weather.py lines 49-61, 83-86, 111-115)
ExampleQueries(ex) ==
    CASE ex = "tools_on_agent_level" ->
             <<"What's the weather like in New York?",
               "What's the current UTC time?",
               "What's the weather in London and what's the current UTC time?">>
      [] ex = "tools_on_run_level" ->
             <<"What's the weather like in Seattle?",
               "What's the current UTC time?",
               "What's the weather in Chicago and what's the current UTC time?">>
      [] ex = "mixed_tools_example" ->
             <<"What's the weather in Denver and what's the current UTC time?">>
      [] ex = "non_streaming_example" -> <<"What's the weather like in Toronto?">>
      [] ex = "streaming_example" -> <<"What's the weather like in Mexico City?">>
      [] ex = "explicit_settings_main" -> <<"What's the weather like in New York?">>
      [] ex = "multi_turn_conversation" ->
             <<"What's the weather like in Tokyo?",
               "How does that compare to Seoul?",
               "Can you give me more detailed information about Tokyo's weather?">>
      [] ex = "vacation_planner" ->
             <<"I'm trying to decide between Barcelona, Rome, and Athens for a beach vacation. Which city has the best weather right now? Give me detailed info for your recommendation.">>
      [] ex = "real_non_streaming_example" -> <<"What's the weather like in Seattle?">>
      [] ex = "real_streaming_example" ->
             <<"Compare the weather in London and Tokyo right now">>
      [] ex = "detailed_weather_example" ->
             <<"Give me a detailed weather report for Paris, France">>
      [] ex = "comparison_example" ->
             <<"Compare the weather in New York, Los Angeles, and Miami. Which city has the best weather right now?">>
      [] ex = "travel_planning_example" ->
             <<"I'm planning to visit London tomorrow. What should I know about the weather and what should I pack?">>
      [] ex = "weather_alert_assistant" ->
             <<"I want to go hiking in Denver tomorrow. Is the weather suitable?",
               "I'm planning a picnic in San Francisco this afternoon. What should I expect?",
               "Is it good weather for cycling in Amsterdam right now?">>

\* ExampleRunTools with the tools argument left out of the call of mixed_tools_example
ExampleRunToolsForgotten(ex, k) ==
    CASE ex = "tools_on_agent_level" -> <<>>
      [] ex = "tools_on_run_level" ->
             <<<<"get_real_weather">>, <<"get_time">>, <<"get_real_weather", "get_time">>>>[k]
      [] ex = "mixed_tools_example" -> <<>>
      [] OTHER -> <<>>

\* the tools each example gives to its k-th run call (lines 50-62, 84-96, 120-123)
ExampleRunTools(ex, k) ==
    CASE ex = "tools_on_agent_level" -> <<>>
      [] ex = "tools_on_run_level" ->
             <<<<"get_real_weather">>, <<"get_time">>, <<"get_real_weather", "get_time">>>>[k]
      [] ex = "mixed_tools_example" -> <<"get_time">>
      [] OTHER -> <<>>

SamplesInit ==
    /\ script \in {"existing_agent"} \cup ExampleScripts
    /\ s_pc = "begin"
    /\ example = 0
    /\ run_no = 0
    /\ cred_open = 0
    /\ client_open = 0
    /\ agent_open = 0
    /\ created = FALSE
    /\ remote_agent = "none"
    /\ delete_calls = 0
    /\ pending = ""
    /\ calls = <<>>
    /\ trace = <<>>
    /\ in_flight = 0
    /\ context = <<>>
    /\ replies = <<>>
    /\ chunks = <<>>
    /\ handled = 0
    /\ printed = <<>>

\* ---- azure_ai_with_existing_agent.py : main ----

\* line 31: AzureCliCredential() as credential
EnterCredential ==
    /\ script = "existing_agent"
    /\ s_pc = "begin"
    /\ cred_open' = cred_open + 1
    /\ trace' = Append(trace, "credential.enter")
    /\ s_pc' = "client"
    /\ UNCHANGED <<script, example, run_no, client_open, agent_open, created,
                   remote_agent, delete_calls, pending, calls>>
    /\ UNCHANGED runVars
    /\ UNCHANGED notSamples

\* line 32: AIProjectClient(endpoint=os.environ[...], credential=credential) as client;
\* the lookup of AZURE_AI_PROJECT_ENDPOINT raises KeyError when the variable is unset
EnterClient ==
    /\ script = "existing_agent"
    /\ s_pc = "client"
    /\ \/ /\ client_open' = client_open + 1
          /\ trace' = Append(trace, "client.enter")
          /\ pending' = pending
          /\ s_pc' = "create"
       \/ /\ client_open' = client_open
          /\ trace' = trace
          /\ pending' = "KeyError"
          /\ s_pc' = IF CredentialScoped THEN "exit_credential" ELSE "end"
    /\ UNCHANGED <<script, example, run_no, cred_open, agent_open, created,
                   remote_agent, delete_calls, calls>>
    /\ UNCHANGED runVars
    /\ UNCHANGED notSamples

\* lines 35-37: client.agents.create_agent(model=os.environ[...], name="WeatherAgent");
\* the lookup of AZURE_AI_MODEL_DEPLOYMENT_NAME raises KeyError before the call is
\* made, and the call itself may raise
CreateAgent ==
    /\ script = "existing_agent"
    /\ s_pc = "create"
    /\ \/ /\ created' = TRUE
          /\ remote_agent' = "exists"
          /\ trace' = Append(trace, "create_agent")
          /\ pending' = pending
          /\ s_pc' = "enter_agent"
       \/ /\ created' = created
          /\ remote_agent' = remote_agent
          /\ trace' = Append(trace, "create_agent")
          /\ pending' = "HttpResponseError"
          /\ s_pc' = "exit_client"
       \/ /\ created' = created
          /\ remote_agent' = remote_agent
          /\ trace' = trace
          /\ pending' = "KeyError"
          /\ s_pc' = "exit_client"
    /\ UNCHANGED <<script, example, run_no, cred_open, client_open, agent_open,
                   delete_calls, calls>>
    /\ UNCHANGED runVars
    /\ UNCHANGED notSamples

\* lines 39-46: inside try, the ChatAgent is built and its scope entered
EnterAgent ==
    /\ script = "existing_agent"
    /\ s_pc = "enter_agent"
    /\ \/ /\ agent_open' = agent_open + 1
          /\ trace' = Append(trace, "agent.enter")
          /\ pending' = pending
          /\ s_pc' = "run"
       \/ /\ agent_open' = agent_open
          /\ trace' = trace
          /\ pending' = "ServiceInitializationError"
          /\ s_pc' = "finally"
    /\ UNCHANGED <<script, example, run_no, cred_open, client_open, created,
                   remote_agent, delete_calls, calls>>
    /\ UNCHANGED runVars
    /\ UNCHANGED notSamples

\* lines 47-48: agent.run, then the result is printed
RunAgent ==
    /\ script = "existing_agent"
    /\ s_pc = "run"
    /\ calls' = Append(calls, [example |-> "main", query |-> ExistingAgentQuery,
                               tools |-> ChatAgent_run_tools(ExistingAgentTools, <<>>)])
    /\ \/ /\ trace' = trace \o <<"run", "print">>
          /\ pending' = pending
       \/ /\ trace' = Append(trace, "run")
          /\ pending' = "ServiceResponseException"
    /\ s_pc' = "exit_agent"
    /\ UNCHANGED <<script, example, run_no, cred_open, client_open, agent_open,
                   created, remote_agent, delete_calls>>
    /\ UNCHANGED runVars
    /\ UNCHANGED notSamples

\* line 46: the ChatAgent scope is left, by the end of the block or by the
\* exception of run; leaving may raise itself
ExitAgent ==
    /\ script = "existing_agent"
    /\ s_pc = "exit_agent"
    /\ agent_open' = agent_open - 1
    /\ trace' = Append(trace, "agent.exit")
    /\ \/ pending' = pending
       \/ pending' = "ServiceException"
    /\ s_pc' = "finally"
    /\ UNCHANGED <<script, example, run_no, cred_open, client_open, created,
                   remote_agent, delete_calls, calls>>
    /\ UNCHANGED runVars
    /\ UNCHANGED notSamples

\* lines 49-51: client.agents.delete_agent(created_agent.id); the call may raise,
\* and then the remote agent stays
DeleteAgent ==
    /\ script = "existing_agent"
    /\ s_pc = "finally"
    /\ IF pending = "" \/ DeleteInFinally
           THEN /\ delete_calls' = delete_calls + 1
                /\ trace' = Append(trace, "delete_agent")
                /\ \/ /\ remote_agent' = "deleted"
                      /\ pending' = pending
                   \/ /\ remote_agent' = remote_agent
                      /\ pending' = "HttpResponseError"
           ELSE UNCHANGED <<delete_calls, trace, remote_agent, pending>>
    /\ s_pc' = "exit_client"
    /\ UNCHANGED <<script, example, run_no, cred_open, client_open, agent_open,
                   created, calls>>
    /\ UNCHANGED runVars
    /\ UNCHANGED notSamples

\* line 32: the AIProjectClient scope is left
ExitClient ==
    /\ script = "existing_agent"
    /\ s_pc = "exit_client"
    /\ client_open' = client_open - 1
    /\ trace' = Append(trace, "client.exit")
    /\ s_pc' = "exit_credential"
    /\ UNCHANGED <<script, example, run_no, cred_open, agent_open, created,
                   remote_agent, delete_calls, pending, calls>>
    /\ UNCHANGED runVars
    /\ UNCHANGED notSamples

\* line 31: the credential scope is left, and main returns or raises
ExitCredential ==
    /\ script = "existing_agent"
    /\ s_pc = "exit_credential"
    /\ cred_open' = cred_open - 1
    /\ trace' = Append(trace, "credential.exit")
    /\ s_pc' = "end"
    /\ UNCHANGED <<script, example, run_no, client_open, agent_open, created,
                   remote_agent, delete_calls, pending, calls>>
    /\ UNCHANGED runVars
    /\ UNCHANGED notSamples

\* ---- the scripts whose main awaits example functions, one after the other ----

\* azure_ai_with_function_tools.py lines 130-132, azure_ai_basic.py lines 77-78,
\* azure_ai_multiturn_real_weather.py lines 130-132: the examples main awaits, in
\* azure_ai_basic_real_weather.py lines 76-77, azure_ai_detailed_real_weather.py
\* lines 104-106: the examples main awaits, in order (the two examples of
\* azure_ai_basic_real_weather.py are named real_...); main of
\* azure_ai_with_explicit_settings.py is its one example
ScriptExamples(sc) ==
    CASE sc = "function_tools" -> Examples
      [] sc = "basic" -> <<"non_streaming_example", "streaming_example">>
      [] sc = "multiturn" -> <<"multi_turn_conversation", "vacation_planner",
                               "weather_alert_assistant">>
      [] sc = "explicit_settings" -> <<"explicit_settings_main">>
      [] sc = "basic_real_weather" -> <<"real_non_streaming_example",
                                        "real_streaming_example">>
      [] sc = "detailed_real_weather" -> <<"detailed_weather_example", "comparison_example",
                                           "travel_planning_example">>

\* the example that is running
Example == ScriptExamples(script)[example]

\* main awaits the next example, which enters its credential scope (the first item
\* of its async with statement)
StartExample ==
    /\ script \in ExampleScripts
    /\ s_pc \in {"begin", "next"}
    /\ example < Len(ScriptExamples(script))
    /\ example' = example + 1
    /\ run_no' = 0
    /\ cred_open' = cred_open + 1
    /\ trace' = Append(trace, "credential.enter")
    /\ s_pc' = "enter_agent"
    /\ UNCHANGED <<script, client_open, agent_open, created, remote_agent,
                   delete_calls, pending, calls>>
    /\ UNCHANGED runVars
    /\ UNCHANGED notSamples

\* the second item of the async with statement: the agent is built and its scope
\* entered, with an empty conversation context; building it may raise (a missing
\* environment variable, a service error)
EnterExampleAgent ==
    /\ script \in ExampleScripts
    /\ s_pc = "enter_agent"
    /\ \/ /\ agent_open' = agent_open + 1
          /\ trace' = Append(trace, "agent.enter")
          /\ pending' = pending
          /\ s_pc' = "run"
       \/ /\ agent_open' = agent_open
          /\ trace' = trace
          /\ pending' = "ServiceInitializationError"
          /\ s_pc' = IF CredentialScoped THEN "exit_credential" ELSE "end"
    /\ context' = ChatAgent_new_context
    /\ UNCHANGED <<script, example, run_no, cred_open, client_open, created,
                   remote_agent, delete_calls, calls>>
    /\ UNCHANGED <<in_flight, replies, chunks, handled, printed>>
    /\ UNCHANGED notSamples

\* agent.run(query, ...) is called: the query goes downstream with the tools and
\* the conversation context of the agent
RunExample ==
    /\ script \in ExampleScripts
    /\ s_pc = "run"
    /\ ~ExampleStreams(Example)
    /\ run_no < Len(ExampleQueries(Example))
    /\ LET ex == Example
           k == run_no + 1
       IN  /\ run_no' = k
           /\ calls' = Append(calls,
                              [example |-> ex,
                               query |-> ExampleQueries(ex)[k],
                               tools |-> ChatAgent_run_tools(ExampleAgentTools(ex),
                                                             ExampleRunTools(ex, k)),
                               context |-> context])
           /\ s_pc' = IF RunAwaited(ex, k) THEN "await" ELSE "run"
    /\ in_flight' = in_flight + 1
    /\ trace' = Append(trace, "run")
    /\ UNCHANGED <<script, example, cred_open, client_open, agent_open, created,
                   remote_agent, delete_calls, pending>>
    /\ UNCHANGED <<context, replies, chunks, handled, printed>>
    /\ UNCHANGED notSamples

\* the run in flight completes: its reply is returned and printed and the turn
\* joins the context of the agent, or the run raises
RunReturns ==
    /\ script \in ExampleScripts
    /\ s_pc \in {"await", "run"}
    /\ ~ExampleStreams(Example)
    /\ in_flight > 0
    /\ in_flight' = in_flight - 1
    /\ \/ \E r \in Replies :
            /\ replies' = Append(replies, r)
            /\ context' = ChatAgent_context_after(
                              context, ExampleQueries(Example)[run_no - in_flight + 1], r)
            /\ trace' = Append(trace, "print")
            /\ pending' = pending
            /\ s_pc' = "run"
       \/ /\ UNCHANGED <<replies, context, trace>>
          /\ pending' = "ServiceResponseException"
          /\ s_pc' = "exit_agent"
    /\ UNCHANGED <<script, example, run_no, cred_open, client_open, agent_open, created,
                   remote_agent, delete_calls, calls>>
    /\ UNCHANGED <<chunks, handled, printed>>
    /\ UNCHANGED notSamples

\* agent.run_stream(query) is called and the async for loop begins (azure_ai_basic.py
\* lines 67-68, azure_ai_multiturn_real_weather.py lines 88-89)
StartStream ==
    /\ script \in ExampleScripts
    /\ s_pc = "run"
    /\ ExampleStreams(Example)
    /\ run_no < Len(ExampleQueries(Example))
    /\ LET ex == Example
           k == run_no + 1
       IN  /\ run_no' = k
           /\ calls' = Append(calls,
                              [example |-> ex,
                               query |-> ExampleQueries(ex)[k],
                               tools |-> ChatAgent_run_tools(ExampleAgentTools(ex),
                                                             ExampleRunTools(ex, k)),
                               context |-> context])
    /\ in_flight' = in_flight + 1
    /\ chunks' = <<>>
    /\ handled' = 0
    /\ printed' = <<>>
    /\ trace' = Append(trace, "run_stream")
    /\ s_pc' = "stream"
    /\ UNCHANGED <<script, example, cred_open, client_open, agent_open, created,
                   remote_agent, delete_calls, pending>>
    /\ UNCHANGED <<context, replies>>
    /\ UNCHANGED notSamples

\* async for chunk in ...: the loop asks for the next chunk and the stream delivers it
NextChunk ==
    /\ script \in ExampleScripts
    /\ s_pc = "stream"
    /\ Len(chunks) < MaxChunks
    /\ \E t \in ChunkTexts : chunks' = Append(chunks, t)
    /\ s_pc' = "chunk"
    /\ UNCHANGED <<script, example, run_no, cred_open, client_open, agent_open, created,
                   remote_agent, delete_calls, pending, calls, trace>>
    /\ UNCHANGED <<in_flight, context, replies, handled, printed>>
    /\ UNCHANGED notSamples

\* the loop body (azure_ai_basic.py lines 69-70, azure_ai_multiturn_real_weather.py
\* lines 90-91): the text of the chunk is printed when it is not empty
HandleChunk ==
    /\ script \in ExampleScripts
    /\ s_pc = "chunk"
    /\ LET t == chunks[Len(chunks)] IN
       printed' = IF PrintsChunk(t) THEN Append(printed, t) ELSE printed
    /\ handled' = handled + 1
    /\ s_pc' = "stream"
    /\ UNCHANGED <<script, example, run_no, cred_open, client_open, agent_open, created,
                   remote_agent, delete_calls, pending, calls, trace>>
    /\ UNCHANGED <<in_flight, context, replies, chunks>>
    /\ UNCHANGED notSamples

\* the stream ends: the loop is left and the closing line feeds are printed
\* (azure_ai_basic.py line 71, azure_ai_multiturn_real_weather.py line 92), or
\* the stream raises
EndStream ==
    /\ script \in ExampleScripts
    /\ s_pc = "stream"
    /\ in_flight' = in_flight - 1
    /\ \/ /\ replies' = Append(replies, chunks)
          /\ context' = ChatAgent_context_after(
                            context, ExampleQueries(Example)[run_no], chunks)
          /\ trace' = Append(trace, "print")
          /\ pending' = pending
          /\ s_pc' = "run"
       \/ /\ UNCHANGED <<replies, context, trace>>
          /\ pending' = "ServiceResponseException"
          /\ s_pc' = "exit_agent"
    /\ UNCHANGED <<script, example, run_no, cred_open, client_open, agent_open, created,
                   remote_agent, delete_calls, calls>>
    /\ UNCHANGED <<chunks, handled, printed>>
    /\ UNCHANGED notSamples

\* the end of the async with block: the agent scope is left, after the last run
\* or by the exception of a run; leaving may raise itself
ExitExampleAgent ==
    /\ script \in ExampleScripts
    /\ \/ s_pc = "exit_agent"
       \/ s_pc = "run" /\ run_no = Len(ExampleQueries(Example))
    /\ agent_open' = agent_open - 1
    /\ trace' = Append(trace, "agent.exit")
    /\ \/ pending' = pending
       \/ pending' = "ServiceException"
    /\ s_pc' = "exit_credential"
    /\ UNCHANGED <<script, example, run_no, cred_open, client_open, created,
                   remote_agent, delete_calls, calls>>
    /\ UNCHANGED runVars
    /\ UNCHANGED notSamples

\* MainGoesOn with every await of main wrapped in try / except: main goes on to
\* the next example also after an example raised
MainGoesOnAfterFailure(p) == TRUE

\* main awaits its examples one after the other without try (azure_ai_basic.py
\* lines 77-78, azure_ai_with_function_tools.py lines 130-132,
\* azure_ai_multiturn_real_weather.py lines 130-132): it goes on to the next
\* example only when no exception p leaves the example before
MainGoesOn(p) == p = ""

\* the credential scope is left; the example returns to main, or its exception
\* leaves main
ExitExampleCredential ==
    /\ script \in ExampleScripts
    /\ s_pc = "exit_credential"
    /\ cred_open' = cred_open - 1
    /\ trace' = Append(trace, "credential.exit")
    /\ s_pc' = IF MainGoesOn(pending) /\ example < Len(ScriptExamples(script))
                   THEN "next"
                   ELSE "end"
    /\ UNCHANGED <<script, example, run_no, client_open, agent_open, created,
                   remote_agent, delete_calls, pending, calls>>
    /\ UNCHANGED runVars
    /\ UNCHANGED notSamples

SamplesNext ==
    \/ EnterCredential
    \/ EnterClient
    \/ CreateAgent
    \/ EnterAgent
    \/ RunAgent
    \/ ExitAgent
    \/ DeleteAgent
    \/ ExitClient
    \/ ExitCredential
    \/ StartExample
    \/ EnterExampleAgent
    \/ RunExample
    \/ RunReturns
    \/ StartStream
    \/ NextChunk
    \/ HandleChunk
    \/ EndStream
    \/ ExitExampleAgent
    \/ ExitExampleCredential

(***************************************************************************)
(* generate_presentation.py : the slide deck                               *)
(***************************************************************************)
\* One constructor call of main: the function called, the title, the number of
\* bullet items of each list passed (the texts of the items are literals of the
\* source and are not modelled), and the subtitle or the name of the code text.
Call(fn, title, items, arg) == [fn |-> fn, title |-> title, items |-> items, arg |-> arg]

\* lines 142-268: slides 1 to 9
IntroCalls ==
    << Call("create_title_slide", "Microsoft Agent Framework", <<>>,
            "Building, Orchestrating, and Deploying AI Agents\nPrivate Preview Overview"),
       Call("create_content_slide", "What is Microsoft Agent Framework?", <<6>>, ""),
       Call("create_content_slide", "Current Status - Private Preview", <<6>>, ""),
       Call("create_content_slide", "Key Features & Capabilities", <<7>>, ""),
       Call("create_content_slide", "Architecture Components", <<6>>, ""),
       Call("create_two_column_slide", "Cross-Platform Support", <<6, 6>>, ""),
       Call("create_content_slide", "Types of Agents", <<6>>, ""),
       Call("create_content_slide", "Multi-Agent Orchestration Patterns", <<6>>, ""),
       Call("create_content_slide", "Graph-Based Workflows", <<6>>, "") >>

\* lines 270-332: slides 10 to 12
CodeCalls ==
    << Call("create_code_slide", "Python Example - Simple Agent", <<>>, "python_code"),
       Call("create_code_slide", ".NET Example - Simple Agent", <<>>, "dotnet_code"),
       Call("create_code_slide", "Workflow Example - Sequential Agents", <<>>, "workflow_code") >>

\* lines 334-504: slides 13 to 23
GuideCalls ==
    << Call("create_content_slide", "Plugin & Tool Ecosystem", <<6>>, ""),
       Call("create_content_slide", "Azure Integration", <<6>>, ""),
       Call("create_content_slide", "Getting Started - Installation", <<8>>, ""),
       Call("create_content_slide", "Configuration - Environment Variables", <<9>>, ""),
       Call("create_two_column_slide", "Sample Projects & Examples", <<7, 7>>, ""),
       Call("create_content_slide", "Development Tools", <<6>>, ""),
       Call("create_content_slide", "Best Practices", <<7>>, ""),
       Call("create_content_slide", "Resources & Documentation", <<7>>, ""),
       Call("create_content_slide", "Current Focus & Evolution", <<9>>, ""),
       Call("create_content_slide", "Get Involved!", <<11>>, ""),
       Call("create_title_slide", "Questions?", <<>>, "Microsoft Agent Framework\n\nThank you!") >>

\* DeckPlan with the three code examples left out
DeckPlanWithoutCode == IntroCalls \o GuideCalls

\* lines 142-504: the constructor calls of main, in order
DeckPlan == IntroCalls \o CodeCalls \o GuideCalls

\* line 507
output_file == "agent_framework_overview.pptx"

\* Presentation() (line 138) opens the default template, which has no slides
Presentation == <<>>

\* the number of items of the lists call c passes
ItemCount(c) ==
    IF c.items = <<>> THEN 0
    ELSE IF Len(c.items) = 1 THEN c.items[1]
    ELSE c.items[1] + c.items[2]

DeckInit ==
    /\ d_pc = "start"
    /\ call_no = 0
    /\ item_no = 0
    /\ slides = <<>>
    /\ pptx_file \in {[exists |-> FALSE, slides |-> <<>>],
                      [exists |-> TRUE, slides |-> <<[kind |-> "old"]>>]}

\* lines 138-140: the presentation is opened and its size set
NewPresentation ==
    /\ d_pc = "start"
    /\ slides' = Presentation
    /\ d_pc' = "main"
    /\ UNCHANGED <<call_no, item_no, pptx_file>>
    /\ UNCHANGED notDeck

\* create_title_slide (lines 18-35): a slide on layout 0 with title and subtitle
CreateTitleSlide ==
    /\ d_pc = "main"
    /\ call_no < Len(DeckPlan)
    /\ LET c == DeckPlan[call_no + 1] IN
       /\ c.fn = "create_title_slide"
       /\ slides' = Append(slides, [kind |-> "title", layout |-> 0, title |-> c.title,
                                    subtitle |-> c.arg])
    /\ call_no' = call_no + 1
    /\ UNCHANGED <<d_pc, item_no, pptx_file>>
    /\ UNCHANGED notDeck

\* create_content_slide (lines 38-53): a slide on layout 1, its title set and
\* its body placeholder cleared; the items follow
CreateContentSlide ==
    /\ d_pc = "main"
    /\ call_no < Len(DeckPlan)
    /\ LET c == DeckPlan[call_no + 1] IN
       /\ c.fn = "create_content_slide"
       /\ slides' = Append(slides, [kind |-> "content", layout |-> 1, title |-> c.title,
                                    paragraphs |-> <<0>>])
    /\ call_no' = call_no + 1
    /\ item_no' = 0
    /\ d_pc' = "items"
    /\ UNCHANGED pptx_file
    /\ UNCHANGED notDeck

\* create_two_column_slide (lines 65-79, 86-88): a slide on layout 3, its title
\* set and its two body placeholders cleared; the items follow
CreateTwoColumnSlide ==
    /\ d_pc = "main"
    /\ call_no < Len(DeckPlan)
    /\ LET c == DeckPlan[call_no + 1] IN
       /\ c.fn = "create_two_column_slide"
       /\ slides' = Append(slides, [kind |-> "two_column", layout |-> 3, title |-> c.title,
                                    paragraphs |-> <<0, 0>>])
    /\ call_no' = call_no + 1
    /\ item_no' = 0
    /\ d_pc' = "items"
    /\ UNCHANGED pptx_file
    /\ UNCHANGED notDeck

\* lines 55-60, 80-83, 89-92: one item is added as a paragraph of its list (the
\* left list is filled before the right one)
AddParagraph ==
    /\ d_pc = "items"
    /\ LET c == DeckPlan[call_no]
           n == Len(slides)
           col == IF item_no < c.items[1] THEN 1 ELSE 2
       IN  /\ item_no < ItemCount(c)
           /\ slides' = [slides EXCEPT ![n].paragraphs[col] = @ + 1]
    /\ item_no' = item_no + 1
    /\ UNCHANGED <<d_pc, call_no, pptx_file>>
    /\ UNCHANGED notDeck

\* lines 62, 94: the constructor returns the slide
ReturnSlide ==
    /\ d_pc = "items"
    /\ item_no = ItemCount(DeckPlan[call_no])
    /\ d_pc' = "main"
    /\ UNCHANGED <<call_no, item_no, slides, pptx_file>>
    /\ UNCHANGED notDeck

\* create_code_slide (lines 97-133): a slide on the blank layout 6 with a title
\* box and a code box
CreateCodeSlide ==
    /\ d_pc = "main"
    /\ call_no < Len(DeckPlan)
    /\ LET c == DeckPlan[call_no + 1] IN
       /\ c.fn = "create_code_slide"
       /\ slides' = Append(slides, [kind |-> "code", layout |-> 6, title |-> c.title,
                                    code |-> c.arg])
    /\ call_no' = call_no + 1
    /\ UNCHANGED <<d_pc, item_no, pptx_file>>
    /\ UNCHANGED notDeck

\* lines 507-508: after the last call the deck is saved; the write may fail (the
\* working directory is not writable), and then the exception leaves main
SaveDeck ==
    /\ d_pc = "main"
    /\ call_no = Len(DeckPlan)
    /\ \/ /\ pptx_file' = [exists |-> TRUE, slides |-> slides]
          /\ d_pc' = "saved"
       \/ /\ pptx_file' = pptx_file
          /\ d_pc' = "failed"
    /\ UNCHANGED <<call_no, item_no, slides>>
    /\ UNCHANGED notDeck

DeckNext ==
    \/ NewPresentation
    \/ CreateTitleSlide
    \/ CreateContentSlide
    \/ CreateTwoColumnSlide
    \/ AddParagraph
    \/ ReturnSlide
    \/ CreateCodeSlide
    \/ SaveDeck

(***************************************************************************)
(* The specifications: one program runs, the others stay idle              *)
(***************************************************************************)
SamplesIdle ==
    /\ script = "none"
    /\ s_pc = "idle"
    /\ example = 0
    /\ run_no = 0
    /\ cred_open = 0
    /\ client_open = 0
    /\ agent_open = 0
    /\ created = FALSE
    /\ remote_agent = "none"
    /\ delete_calls = 0
    /\ pending = ""
    /\ calls = <<>>
    /\ trace = <<>>
    /\ in_flight = 0
    /\ context = <<>>
    /\ replies = <<>>
    /\ chunks = <<>>
    /\ handled = 0
    /\ printed = <<>>

DocIdle ==
    /\ pc = "idle"
    /\ md_exists = FALSE
    /\ src = <<>>
    /\ in_code = FALSE
    /\ code_lang = <<>>
    /\ code_buffer = <<>>
    /\ table_buffer = <<>>
    /\ doc = <<>>
    /\ docx_file = NoFile
    /\ docx_before = NoFile
    /\ exit_msg = <<>>
    /\ origin = <<>>
    /\ code_from = 0
    /\ table_from = 0

DeckIdle ==
    /\ d_pc = "idle"
    /\ call_no = 0
    /\ item_no = 0
    /\ slides = <<>>
    /\ pptx_file = [exists |-> FALSE, slides |-> <<>>]

WeatherIdle ==
    /\ w_pc = "idle"
    /\ w_fn = "basic"
    /\ api_key = None
    /\ location = "Tokyo"
    /\ sessions = 0
    /\ open_sessions = 0
    /\ gets = 0
    /\ status = 0
    /\ data = << >>
    /\ exc = NoException
    /\ w_result = <<>>
    /\ w_escaped = FALSE

\* python generate_architecture_doc.py
InitDoc == DocInit /\ WeatherIdle /\ SamplesIdle /\ DeckIdle
SpecDoc == InitDoc /\ [][DocNext]_vars

\* python generate_architecture_doc.py on a file of heading lines
SpecHeadings == InitDoc /\ [][HeadingsNext]_vars

\* python generate_architecture_doc.py on a file of paragraphs with backticks
SpecInline == InitDoc /\ [][InlineNext]_vars

\* one call of a weather function
InitWeather == WeatherInit /\ DocIdle /\ SamplesIdle /\ DeckIdle
SpecWeather == InitWeather /\ [][WeatherNext]_vars

\* one run of an agent sample script
InitSamples == SamplesInit /\ DocIdle /\ WeatherIdle /\ DeckIdle
SpecSamples == InitSamples /\ [][SamplesNext]_vars

\* python generate_presentation.py
InitDeck == DeckInit /\ DocIdle /\ WeatherIdle /\ SamplesIdle
SpecDeck == InitDeck /\ [][DeckNext]_vars

(***************************************************************************)
(* Properties of the weather functions                                     *)
(***************************************************************************)
Range(f) == {f[i] : i \in DOMAIN f}

\* C4: get_real_weather and get_real_weather_detailed never raise out to their
\* caller: whatever the HTTP call does (any status, a transport exception, a body
\* that is not JSON or lacks a field), no exception leaves the function, the call
\* goes on until it returns, and what it returns is a text of at least one line.
C4_NeverRaises ==
    /\ ~w_escaped
    /\ w_pc # "raised"
    /\ w_pc # "returned" => ENABLED WeatherNext
    /\ w_pc = "returned" =>
          /\ Len(w_result) >= 1
          /\ \A i \in 1..Len(w_result) : DOMAIN w_result[i] = {"fmt", "args"}

\* C4's case: the body was not JSON, and the call has returned
C4_Witness ==
    /\ w_pc = "returned"
    /\ exc.cls = "JSONDecodeError"
    /\ w_fn = "detailed"

\* C6: with OPENWEATHERMAP_API_KEY absent, either function returns the fixed
\* "not set" message, creates no session and issues no GET.
C6_MissingKeyNoRequest ==
    (api_key = None /\ w_pc # "call") =>
        /\ w_pc = "returned"
        /\ Len(w_result) = 2
        /\ w_result[1] = [fmt |-> "Error: OPENWEATHERMAP_API_KEY not set in environment variables.",
                          args |-> <<>>]
        /\ w_result[2].args = <<>>
        /\ sessions = 0
        /\ open_sessions = 0
        /\ gets = 0
        /\ status = 0

\* C6's case: the detailed function was called without a key and has returned
C6_Witness ==
    /\ api_key = None
    /\ w_fn = "detailed"
    /\ w_pc = "returned"

\* get_real_weather has returned, with a key, from a call in which nothing was raised
BasicReturned ==
    /\ w_fn = "basic"
    /\ w_pc = "returned"
    /\ ~(api_key = None \/ api_key = "")
    /\ exc = NoException

\* the mapping of the statuses other than 200, as C7 states it
C7_ErrorStatuses ==
    /\ status = 401 =>
          w_result = <<[fmt |-> "Error: Invalid API key. Please check your OPENWEATHERMAP_API_KEY.",
                        args |-> <<>>]>>
    /\ status = 404 =>
          /\ Len(w_result) = 1
          /\ w_result[1].fmt = "Error: City '{}' not found. Try using format like 'Seattle' or 'London,UK'."
          /\ w_result[1].args = <<location>>
    /\ status \notin {200, 401, 404} =>
          /\ Len(w_result) = 1
          /\ str(status) \in Range(w_result[1].args)

C22_SessionPerCall ==
    /\ open_sessions \in {0, 1}
    /\ open_sessions <= sessions
    /\ sessions <= 1
    /\ gets <= sessions
    /\ (w_pc \in {"status", "json", "extract"}) => open_sessions = 1
    /\ (w_pc \in {"returned", "raised", "except"} /\ ~KeyMissing(api_key)) =>
           /\ sessions = 1
           /\ gets = 1
           /\ open_sessions = 0

\* C22's case: the call has returned the report of an unexpected error after a
\* failure while the body of a 200 answer was processed
C22_Witness ==
    /\ w_pc = "returned"
    /\ status = 200
    /\ exc.cls \in {"KeyError", "JSONDecodeError"}
    /\ w_result = UnexpectedErrorMessage(exc)
    /\ sessions = 1
    /\ gets = 1
    /\ open_sessions = 0

\* The first lines of the texts that start with "Error:": a returned text starts
\* with "Error:" when its first line is one of these (no first line starts with a
\* formatted value).
ErrorHeads ==
    { "Error: OPENWEATHERMAP_API_KEY not set in environment variables.",
      "Error: Invalid API key. Please check your OPENWEATHERMAP_API_KEY.",
      "Error: City '{}' not found. Try using format like 'Seattle' or 'London,UK'.",
      "Error: Could not fetch weather for {} (Status: {})",
      "Error: Network error occurred: {}",
      "Error: Unexpected error occurred: {}" }

\* the returned text starts with "Error:"
StartsWithError(text) == text # <<>> /\ text[1].fmt \in ErrorHeads

\* the call obtained, with the key present, a status-200 answer whose body holds
\* every field the called function reads without a default
ObtainedReport ==
    /\ ~KeyMissing(api_key)
    /\ status = 200
    /\ (IF w_fn = "basic" THEN BasicKeys ELSE DetailedKeys) \subseteq DOMAIN data

\* C26: the text a weather function returns starts with "Error:" exactly when the
\* call did not obtain a status-200 answer with a complete body, the key being
\* present; and the text returned for a missing key, for 401, for 404 and for
\* another status other than 200 is fixed by that outcome (and the location)
\* alone, the same for both functions.
C26_ErrorPrefix ==
    w_pc = "returned" =>
        /\ StartsWithError(w_result) <=> ~ObtainedReport
        /\ KeyMissing(api_key) => w_result = NotSetMessage
        /\ (~KeyMissing(api_key) /\ status = 401) => w_result = InvalidKeyMessage
        /\ (~KeyMissing(api_key) /\ status = 404) => w_result = NotFoundMessage(location)
        /\ (~KeyMissing(api_key) /\ status \in Statuses \ {200, 401, 404}) =>
               w_result = StatusMessage(location, status)

\* C26's case: get_real_weather_detailed has returned the text of a status that is
\* none of 200, 401 and 404
C26_Witness ==
    /\ w_pc = "returned"
    /\ w_fn = "detailed"
    /\ status = 500
    /\ w_result = StatusMessage(location, 500)
    /\ StartsWithError(w_result)

(***************************************************************************)
(* Properties of the markdown converter                                    *)
(***************************************************************************)
\* C1: the blocks of the document are in the order of the source lines they come
\* from: each block starts at a later line than every block before it. (A table
\* starts at its first captured row, a code block at its opening fence.)
C1_SourceOrder ==
    \A i, j \in 1..Len(origin) : i < j => origin[i] < origin[j]

\* C2: after any line that is not a table row has been processed (a fence line
\* included), no table is pending.
C2_TableFlushed ==
    (pc = "loop" /\ src # <<>> /\ ~TABLE_ROW(StrippedLine(src[Len(src)])))
        => table_buffer = <<>>

\* C3: the closing fence of a block with interior lines adds exactly one block to
\* the document, the code block holding the interior lines, as they stand in the
\* source, joined by line feeds; the interior lines add nothing themselves.
C3_FenceIntegrity ==
    [][ /\ (src' # src /\ in_code /\ in_code') => doc' = doc
        /\ (src' # src /\ in_code /\ ~in_code' /\ Len(src) > code_from) =>
              doc' = Append(doc,
                            [kind |-> "code",
                             text |-> join(<<"\n">>,
                                           [i \in 1..(Len(src) - code_from) |->
                                               iter_lines(src[code_from + i])])])
      ]_vars

RECURSIVE CapturedRows(_)
\* the rows a run of table-row lines is captured as: the trimmed cells of every
\* line but the alignment rows
CapturedRows(lines) ==
    IF lines = <<>> THEN <<>>
    ELSE LET parts == RowParts(StrippedLine(lines[1]))
         IN  (IF \A i \in 1..Len(parts) : AlignmentCell(parts[i])
                  THEN <<>> ELSE <<parts>>)
                 \o CapturedRows(Tail(lines))

\* C8: when the file is one run of table-row lines, the conversion ends with one
\* table in the document, whose first row is the first captured row and whose
\* later rows are the later captured rows, in order, cell for cell.
C8_TableRows ==
    ( /\ pc \in {"done", "failed"}
      /\ \A i \in 1..Len(src) : TABLE_ROW(StrippedLine(src[i]))
      /\ CapturedRows(src) # <<>> )
        => /\ pc = "done"
           /\ Len(doc) = 1
           /\ doc[1].kind = "table"
           /\ doc[1].rows = CapturedRows(src)

\* C9: when the markdown source does not exist, the run ends by SystemExit with a
\* message naming the missing path, the exit status is not zero, nothing is read
\* or built, and DOCX_FILE is left as it was (absent, or with its old content).
C9_MissingSourceFatal ==
    (~md_exists /\ pc # "start") =>
        /\ pc = "exit"
        /\ ExitStatus # 0
        /\ exit_msg = <<"Markdown file not found: ", "ROOT/architecture_components.md">>
        /\ docx_file = docx_before
        /\ src = <<>>
        /\ doc = <<>>

\* C9's case: the source is missing, an old output file exists, the run has ended
C9_Witness ==
    /\ ~md_exists
    /\ pc = "exit"
    /\ docx_file = OldFile

\* the number of "#" characters line l starts with
MarkerCount(l) ==
    Cardinality({k \in 1..Len(l) : \A i \in 1..k : l[i] = "#"})

\* a heading line: one to six "#" markers, then whitespace, then text
HeadingInput(l) ==
    LET k == MarkerCount(l)
    IN  /\ k \in 1..6
        /\ Len(l) > k
        /\ l[k + 1] \in {" ", "\t"}
        /\ \E i \in (k + 2)..Len(l) : l[i] \notin {" ", "\t"}

Min(a, b) == IF a <= b THEN a ELSE b

FenceNumbers == {i \in 1..Len(src) : CODE_FENCE(StrippedLine(src[i]))}

\* the number of the last fence line read (0 when there is none)
LastFence == IF FenceNumbers = {} THEN 0
             ELSE CHOOSE i \in FenceNumbers : \A j \in FenceNumbers : j <= i

\* the last fence read is an opening fence: the lines after it are inside a block
InsideBlock == Cardinality(FenceNumbers) % 2 = 1

\* the lines read since the last fence
SinceLastFence == SubSeq(src, LastFence + 1, Len(src))

\* the length of the run of table-row lines the file ends with
TrailingRun ==
    Cardinality({n \in 1..Len(src) :
                    \A i \in (Len(src) - n + 1)..Len(src) : TABLE_ROW(StrippedLine(src[i]))})

\* the rows captured from the run of table-row lines the file ends with
TrailingRows == CapturedRows(SubSeq(src, Len(src) - TrailingRun + 1, Len(src)))

\* C18: when the document is saved, both buffers are empty and the saved file
\* holds the document; the lines of an unterminated fenced block are in a code
\* block of the document, and the rows of a table the file ends with are the last
\* rows of the table the document ends with.
C18_EndFlush ==
    pc = "done" =>
        /\ code_buffer = <<>>
        /\ table_buffer = <<>>
        /\ docx_file = [exists |-> TRUE, content |-> doc]
        /\ (InsideBlock /\ SinceLastFence # <<>>) =>
              \E i \in 1..Len(doc) :
                  doc[i] = [kind |-> "code",
                            text |-> join(<<"\n">>,
                                          [j \in 1..Len(SinceLastFence) |->
                                              StrippedLine(SinceLastFence[j])])]
        /\ (~InsideBlock /\ TrailingRows # <<>>) =>
              LET t == doc[Len(doc)]
                  n == Len(TrailingRows)
              IN  /\ t.kind = "table"
                  /\ Len(t.rows) >= n
                  /\ \A r \in 1..n :
                         t.rows[Len(t.rows) - n + r] =
                             [c \in 1..t.cols |->
                                 IF c <= Len(TrailingRows[r]) THEN TrailingRows[r][c]
                                                              ELSE <<>>]

\* C18's case: the file ends inside a fenced block with one interior line, a
\* table row read before the fence is still pending, and the document is saved
C18_Witness ==
    /\ pc = "done"
    /\ Len(src) = 3
    /\ TABLE_ROW(StrippedLine(src[1]))
    /\ InsideBlock
    /\ LastFence = 2
    /\ StrippedLine(src[3]) # <<>>
    /\ Len(doc) = 2
    /\ doc[1].kind = "code"
    /\ doc[2].kind = "table"

\* C19: every fence line toggles the code-block state, and right after a closing
\* fence in_code is false, the code buffer is empty and the language tag is unset.
C19_ClosingFenceResets ==
    (pc = "loop" /\ src # <<>> /\ LastFence = Len(src)) =>
        /\ in_code = InsideBlock
        /\ ~in_code => (code_buffer = <<>> /\ code_lang = <<>>)

\* C20: inside a code block the code buffer holds the lines read since the
\* opening fence, each as it stands in the file with only its line feed removed.
C20_Verbatim ==
    (pc = "loop" /\ in_code) =>
        code_buffer = [i \in 1..Len(SinceLastFence) |-> iter_lines(SinceLastFence[i])]

\* C23: between lines, and once the loop has ended, the code buffer holds lines
\* only inside a fenced code block: in_code = FALSE implies it is empty.
C23_BufferOnlyInCode ==
    (pc \in {"loop", "done", "failed"} /\ ~in_code) => code_buffer = <<>>

\* C23's case: a fenced block with an interior line has been closed and a line
\* after it read; the block is in the document and the buffer is empty
C23_Witness ==
    /\ pc = "loop"
    /\ ~in_code
    /\ Len(src) = 4
    /\ FenceNumbers = {1, 3}
    /\ StrippedLine(src[2]) # <<>>
    /\ code_buffer = <<>>
    /\ \E i \in 1..Len(doc) : doc[i].kind = "code"

\* the numbers of the fence lines read so far, in order
FenceSeq ==
    SelectSeq([i \in 1..Len(src) |-> i], LAMBDA i : CODE_FENCE(StrippedLine(src[i])))

\* the fenced regions that have been closed and hold at least one line, each
\* named by its number among the fenced regions of the file
ClosedRegionsWithLines ==
    {k \in 1..(Len(FenceSeq) \div 2) : FenceSeq[2 * k] - FenceSeq[2 * k - 1] > 1}

\* the file read so far ends inside a fenced region that holds at least one line
OpenRegionWithLines ==
    Len(FenceSeq) % 2 = 1 /\ Len(src) > FenceSeq[Len(FenceSeq)]

\* the number of code blocks in document d
CodeBlocks(d) == Cardinality({i \in 1..Len(d) : d[i].kind = "code"})

\* C24: a fenced region without interior lines adds no code block: between lines
\* the document holds as many code blocks as fenced regions with at least one
\* line have been closed, and the saved output holds as many code blocks as the
\* file has fenced regions with at least one line (the region the file ends in
\* included).
C24_EmptyBlockOmitted ==
    /\ pc = "loop" => CodeBlocks(doc) = Cardinality(ClosedRegionsWithLines)
    /\ pc = "done" =>
           /\ docx_file.exists
           /\ CodeBlocks(docx_file.content) =
                  Cardinality(ClosedRegionsWithLines)
                      + (IF OpenRegionWithLines THEN 1 ELSE 0)

\* C24's case: an opening fence directly followed by a closing fence, then a
\* fenced region of one line that the file ends in; the saved output holds one
\* code block
C24_Witness ==
    /\ pc = "done"
    /\ Len(src) = 4
    /\ FenceSeq = <<1, 2, 3>>
    /\ CodeBlocks(docx_file.content) = 1

\* C25: DOCX_FILE is as it was before the run until the run has ended well, and
\* the only step that writes it is the last one, taken at the end of the input,
\* which leaves both buffers empty and the whole document in the file; a run
\* that fails (add_table raising, the source missing) leaves the file as it was,
\* absent or with its old content.
C25_SaveIsLast ==
    /\ [](pc # "done" => docx_file = docx_before)
    /\ [][ docx_file' # docx_file =>
               /\ pc = "loop"
               /\ pc' = "done"
               /\ src' = src
               /\ code_buffer' = <<>>
               /\ table_buffer' = <<>>
               /\ docx_file' = [exists |-> TRUE, content |-> doc']
         ]_vars

\* C25's case: a body row with more cells than the header row made add_table
\* raise after blocks had been added to the document, and the old output file
\* is as it was
C25_Witness ==
    /\ pc = "failed"
    /\ TABLE_ROW(StrippedLine(src[Len(src) - 1]))
    /\ Len(doc) >= 2
    /\ doc[1].kind # "table"
    /\ docx_before = OldFile
    /\ docx_file = OldFile

RECURSIVE Spans(_, _)
\* the inline-code spans of line l from position p on, leftmost first and not
\* overlapping: each a pair of the positions of its two delimiting backticks,
\* with one or more characters, none of them a backtick, between the two
Spans(l, p) ==
    LET ticks == {i \in p..Len(l) : l[i] = BACKTICK}
        opening == {i \in ticks : /\ i + 1 \in 1..Len(l)
                                  /\ i + 1 \notin ticks
                                  /\ \E j \in ticks : j > i}
    IN  IF opening = {} THEN <<>>
        ELSE LET i == CHOOSE o \in opening : \A q \in opening : o <= q
                 j == CHOOSE c \in ticks : c > i /\ \A q \in ticks : q > i => c <= q
             IN  <<<<i, j>>>> \o Spans(l, j + 1)

\* the positions of line l that are not a delimiting backtick of a span, in order
KeptPositions(l) ==
    LET sp == Spans(l, 1)
    IN  SelectSeq([i \in 1..Len(l) |-> i],
                  LAMBDA i : \A n \in 1..Len(sp) : i # sp[n][1] /\ i # sp[n][2])

\* position i of line l is between the two backticks of a span
InsideSpan(l, i) ==
    LET sp == Spans(l, 1)
    IN  \E n \in 1..Len(sp) : sp[n][1] < i /\ i < sp[n][2]

RECURSIVE RunText(_)
\* the texts of the runs of a paragraph, concatenated in order
RunText(runs) ==
    IF runs = <<>> THEN <<>> ELSE runs[1].text \o RunText(Tail(runs))

RECURSIVE RunFonts(_)
\* for each character of RunText(runs), whether its run is monospaced
RunFonts(runs) ==
    IF runs = <<>> THEN <<>>
    ELSE [c \in 1..Len(runs[1].text) |-> runs[1].mono] \o RunFonts(Tail(runs))

\* the runs of a paragraph are the split of line l the claim C21 describes
SplitOf(runs, l) ==
    LET kept == KeptPositions(l)
        sp == Spans(l, 1)
        mono_runs == SelectSeq(runs, LAMBDA r : r.mono)
    IN  /\ RunText(runs) = [k \in 1..Len(kept) |-> l[kept[k]]]
        /\ RunFonts(runs) = [k \in 1..Len(kept) |-> InsideSpan(l, kept[k])]
        /\ Len(mono_runs) = Len(sp)
        /\ \A n \in 1..Len(sp) :
               mono_runs[n].text = SubSeq(l, sp[n][1] + 1, sp[n][2] - 1)

\* C21: the runs of the paragraph made from a paragraph line, concatenated in
\* order, are the line (as it stands in the file, without its line feed) with
\* exactly the delimiting backticks of its inline-code spans removed; each span
\* is one monospaced run and every character outside the spans is in a plain run.
C21_RunsPreserveLine ==
    \A i \in 1..Len(doc) :
        (doc[i].kind = "paragraph" /\ strip(iter_lines(src[origin[i]])) # <<>>) =>
            SplitOf(doc[i].runs, iter_lines(src[origin[i]]))

(***************************************************************************)
(* Properties of the agent samples                                         *)
(***************************************************************************)
\* the number of times event e is in the trace
Count(e) == Cardinality({i \in 1..Len(trace) : trace[i] = e})

C10_ToolUnion ==
    \A i \in 1..Len(calls) :
        calls[i].example = "mixed_tools_example" =>
            /\ calls[i].tools = <<"get_real_weather", "get_time">>
            /\ Range(calls[i].tools) = {"get_real_weather"} \cup {"get_time"}

\* C10's case: mixed_tools_example has made its run call and main has ended
C10_Witness ==
    /\ script = "function_tools"
    /\ s_pc = "end"
    /\ pending = ""
    /\ \E i \in 1..Len(calls) : calls[i].example = "mixed_tools_example"

\* C11: in the multi-turn sample, a run call is handed the conversation context
\* of its agent scope, and when the k-th run of a scope starts that context is
\* the prompts and replies of runs 1..k-1 of the scope, in order: the second run
\* of multi_turn_conversation starts with the first prompt and its reply.
C11_SharedContext ==
    script = "multiturn" =>
        \A i \in 1..Len(calls) :
            LET n == Cardinality({j \in 1..(i - 1) : calls[j].example = calls[i].example})
                ctx == calls[i].context
            IN  /\ Len(replies) >= i - 1
                /\ Len(ctx) = 2 * n
                /\ \A m \in 1..n :
                       /\ ctx[2 * m - 1] = [role |-> "user", text |-> calls[i - n + m - 1].query]
                       /\ ctx[2 * m] = [role |-> "assistant", text |-> replies[i - n + m - 1]]
                /\ (calls[i].example = "multi_turn_conversation" /\ n >= 1) =>
                       ctx[1].text = "What's the weather like in Tokyo?"

\* C11's case: the third run of multi_turn_conversation is in flight, with the
\* two turns before it as its context
C11_Witness ==
    /\ script = "multiturn"
    /\ s_pc = "await"
    /\ Len(calls) = 3
    /\ calls[3].example = "multi_turn_conversation"
    /\ Len(calls[3].context) = 4
    /\ calls[3].context[3].text = "How does that compare to Seoul?"
    /\ calls[3].context[4].text = "I could not get the weather."

\* C12: at most one run or run_stream call is in flight on an agent at any
\* moment, and a call starts only when no call is in flight and the call before
\* it in the scope, if any, has returned and its reply has been printed.
C12_Sequential ==
    /\ [](in_flight <= 1)
    /\ [][ Len(calls') > Len(calls) =>
               /\ in_flight = 0
               /\ trace # <<>>
               /\ trace[Len(trace)] \in {"agent.enter", "print"}
               /\ Count("print") = Len(calls)
         ]_vars

\* C12's case: the third query of weather_alert_assistant is in flight, the
\* replies to the two before it printed
C12_Witness ==
    /\ script = "multiturn"
    /\ example = 3
    /\ Example = "weather_alert_assistant"
    /\ run_no = 3
    /\ in_flight = 1
    /\ trace[Len(trace)] = "run"
    /\ trace[Len(trace) - 1] = "print"

\* C13: the credential of a scope is released exactly once on every exit path
\* (the end of the block, a failure while the client or the agent is built, a
\* failure of a run), and the client and the agent acquired after it are
\* released before it: they are never open while the credential is not.
C13_CredentialReleased ==
    /\ cred_open \in {0, 1}
    /\ agent_open \in {0, 1}
    /\ client_open \in {0, 1}
    /\ (agent_open > 0 \/ client_open > 0) => cred_open = 1
    /\ Count("credential.enter") = Count("credential.exit") + cred_open
    /\ s_pc = "end" =>
          /\ cred_open = 0
          /\ agent_open = 0
          /\ client_open = 0
          /\ Count("credential.enter") >= 1
          /\ Count("credential.exit") = Count("credential.enter")
          /\ Count("agent.exit") = Count("agent.enter")
          /\ Count("client.exit") = Count("client.enter")

\* C13's case: building the agent failed in the first example of the basic
\* sample, and the script has ended
C13_Witness ==
    /\ script = "basic"
    /\ s_pc = "end"
    /\ pending = "ServiceInitializationError"
    /\ trace = <<"credential.enter", "credential.exit">>

\* C14: the fragments printed for a run_stream call are the non-empty texts of
\* the chunks handled so far, in the order of delivery; every delivered chunk is
\* handled before the next is asked for, and an empty text prints nothing.
C14_StreamOrder ==
    /\ printed = SelectSeq(SubSeq(chunks, 1, handled), LAMBDA t : t # "")
    /\ handled <= Len(chunks)
    /\ s_pc = "chunk" => Len(chunks) = handled + 1
    /\ s_pc # "chunk" => Len(chunks) = handled
    /\ \A i \in 1..Len(printed) : printed[i] # ""

\* C14's case: vacation_planner has handled three chunks, the second without text
C14_Witness ==
    /\ script = "multiturn"
    /\ example = 2
    /\ Example = "vacation_planner"
    /\ s_pc = "stream"
    /\ chunks = <<"Sun", "", "ny">>
    /\ handled = 3
    /\ printed = <<"Sun", "ny">>

\* C27: in the scripts whose main awaits example functions, never more than one
\* credential scope and never more than one agent scope are open, and an agent
\* scope is open only inside a credential scope; main starts an example only
\* when no scope is open and no exception is propagating, so an example that
\* raised is the last one started.
C27_OneExampleAtATime ==
    /\ [](script \in ExampleScripts =>
              /\ cred_open \in {0, 1}
              /\ agent_open \in {0, 1}
              /\ agent_open <= cred_open
              /\ client_open = 0)
    /\ [][ (script \in ExampleScripts /\ example' # example) =>
               /\ example' = example + 1
               /\ cred_open = 0
               /\ agent_open = 0
               /\ in_flight = 0
               /\ pending = ""
               /\ Count("credential.exit") = example
               /\ cred_open' = 1
         ]_vars
    /\ [][ (script \in ExampleScripts /\ pending # "") =>
               (example' = example /\ pending' # "") ]_vars

\* C27's case: the first of three examples has ended and released its scopes,
\* the second has raised, its scopes are released and main has ended without
\* starting the third
C27_Witness ==
    /\ script \in ExampleScripts
    /\ Len(ScriptExamples(script)) = 3
    /\ example = 2
    /\ s_pc = "end"
    /\ pending = "ServiceResponseException"
    /\ cred_open = 0
    /\ agent_open = 0
    /\ Count("credential.enter") = 2
    /\ Count("credential.exit") = 2
    /\ Count("agent.exit") = 2

\* the places of event e in the trace
Places(e) == {i \in 1..Len(trace) : trace[i] = e}

\* C28: in the existing-agent sample, as long as create_agent has not returned no
\* delete call is issued, and at the end of such a run the project client and the
\* credential are released; when create_agent has returned, the one delete call
\* is issued with the ChatAgent scope left (if it was entered) and before the
\* project client and the credential are released.
C28_DeleteOnlyIfCreated ==
    script = "existing_agent" =>
        /\ ~created => (delete_calls = 0 /\ Places("delete_agent") = {})
        /\ s_pc = "end" =>
               /\ client_open = 0
               /\ cred_open = 0
               /\ Count("client.exit") = Count("client.enter")
               /\ Count("credential.exit") = 1
               /\ created => (delete_calls = 1 /\ Count("delete_agent") = 1)
        /\ \A d \in Places("delete_agent") :
               /\ \E c \in Places("create_agent") : c < d
               /\ \A i \in Places("agent.enter") :
                      i < d /\ \E x \in Places("agent.exit") : i < x /\ x < d
               /\ \A x \in Places("agent.exit") : x < d
               /\ \A x \in Places("client.exit") \cup Places("credential.exit") : d < x

\* C28's case: the create_agent call failed; the run has ended with the project
\* client and the credential released and without a delete call
C28_Witness ==
    /\ script = "existing_agent"
    /\ s_pc = "end"
    /\ ~created
    /\ pending = "HttpResponseError"
    /\ delete_calls = 0
    /\ trace = <<"credential.enter", "client.enter", "create_agent",
                 "client.exit", "credential.exit">>

(***************************************************************************)
(* Properties of the slide deck                                            *)
(***************************************************************************)
\* the kinds of n slides in a row
Repeat(n, kind) == [i \in 1..n |-> kind]

\* C17: whenever the deck is saved it holds exactly 23 slides, of the kinds
\* title, 4 content, two-column, 3 content, 3 code, 4 content, two-column,
\* 5 content, title, in that order; the deck never holds more than 23 slides.
C17_SlideCount ==
    /\ Len(slides) <= 23
    /\ d_pc = "saved" =>
          /\ Len(slides) = 23
          /\ pptx_file = [exists |-> TRUE, slides |-> slides]
          /\ [i \in 1..Len(slides) |-> slides[i].kind] =
                 <<"title">> \o Repeat(4, "content") \o <<"two_column">>
                     \o Repeat(3, "content") \o Repeat(3, "code")
                     \o Repeat(4, "content") \o <<"two_column">>
                     \o Repeat(5, "content") \o <<"title">>

\* C17's case: the deck has been saved over the file of an earlier run
C17_Witness ==
    /\ d_pc = "saved"
    /\ call_no = 23
    /\ pptx_file.exists
    /\ Len(pptx_file.slides) = 23
    /\ slides[17].paragraphs = <<7, 7>>

====
